---- MODULE Spec2Model ----
(***************************************************************************)
(* Generation control plane of the meditations server: the submission      *)
(* route POST /api/generations (validate, price, reserve credits, persist, *)
(* enqueue), the credit purchase route POST /api/credits/purchase, the     *)
(* Postgres tables they write and the BullMQ queue they feed.              *)
(*                                                                         *)
(* Every HTTP request is a slot of Handlers that runs once.  The steps of  *)
(* a handler are its awaits: the authenticate hook, the synchronous parse  *)
(* and pricing, each statement of the database transaction, queue.add,     *)
(* the fallback update and the reply.  Postgres (READ COMMITTED) is        *)
(* modelled by its committed tables plus the row lock an UPDATE takes on   *)
(* the users row until its transaction commits or rolls back; the writes   *)
(* of an open transaction become visible together at its commit.           *)
(***************************************************************************)
EXTENDS Integers, FiniteSets, Sequences, TLC

\* --------------------------------------------------------------- bounds
NumHandlers == 2

Handlers == 1..NumHandlers
Users == {"u1", "u2"}
None == 0

\* JavaScript undefined and null, as values no input string equals
Undefined == "<undefined>"
Null == "<null>"

\* ------------------------------------------------------- shared constants
SCRIPT_TYPE == {"ai_generated", "user_provided", "template"}
VIDEO_VISIBILITY == [PUBLIC |-> "public", PRIVATE |-> "private",
                     PENDING_REVIEW |-> "pending_review", REJECTED |-> "rejected"]
GENERATION_STATUS ==
    [PENDING |-> "pending",
     GENERATING_SCRIPT |-> "generating_script",
     GENERATING_VOICE |-> "generating_voice",
     GENERATING_VIDEO |-> "generating_video",
     COMPOSITING |-> "compositing",
     COMPLETED |-> "completed",
     FAILED |-> "failed"]
MODERATION_STATUS == [PENDING |-> "pending", APPROVED |-> "approved",
                      REJECTED |-> "rejected"]
CREDIT_TRANSACTION_TYPE == [PURCHASE |-> "purchase",
                            GENERATION_SPEND |-> "generation_spend"]

\* ------------------------------------------------ routes/generations.ts
CREDITS_BY_DURATION == (60 :> 5) @@ (120 :> 8) @@ (180 :> 12) @@ (300 :> 15)

PRIVATE_SURCHARGE == 3

\* ------------------------------------------- schemas/generation.ts
MinPromptLen == 1
MaxPromptLen == 1000

\* Number(s) for the strings the model feeds to the schema
Number(s) ==
    CASE s = "60" -> 60
      [] s = "120" -> 120
      [] s = "180" -> 180
      [] s = "300" -> 300
      [] s = "90" -> 90

\* durationSeconds: z.enum(['60','120','180','300']).transform(Number)
\*                    .or(z.literal(60)).or(z.literal(120))...
\* The input is [t |-> "string", v |-> <string>] or [t |-> "number", v |-> <int>].
ParseDuration(d) ==
    IF d.t = "string"
    THEN IF d.v \in {"60", "120", "180", "300"}
         THEN [ok |-> TRUE, value |-> Number(d.v)]
         ELSE [ok |-> FALSE, value |-> 0]
    ELSE IF d.v \in {60, 120, 180, 300}
         THEN [ok |-> TRUE, value |-> d.v]
         ELSE [ok |-> FALSE, value |-> 0]

\* visibility: z.enum([PUBLIC, PRIVATE]).default(PUBLIC)
ParseVisibility(v) ==
    IF v = Undefined
    THEN [ok |-> TRUE, value |-> VIDEO_VISIBILITY.PUBLIC]
    ELSE IF v \in {VIDEO_VISIBILITY.PUBLIC, VIDEO_VISIBILITY.PRIVATE}
         THEN [ok |-> TRUE, value |-> v]
         ELSE [ok |-> FALSE, value |-> v]

\* !!x for an optional string
Truthy(s) == s # Undefined /\ s # Null /\ s # ""

\* (mutant) the refinement only asks for scriptContent to be present
RefinePresentOnly(scriptType, scriptContent) ==
    IF scriptType \in {"user_provided", "template"}
    THEN scriptContent # Undefined
    ELSE TRUE

\* the .refine() of createGenerationRequestSchema
ScriptContentRefine(scriptType, scriptContent) ==
    IF scriptType \in {"user_provided", "template"}
    THEN Truthy(scriptContent)
    ELSE TRUE

\* createGenerationRequestSchema.safeParse(body): the object schema, then the
\* refinement.  A body is [visualPromptLen, scriptType, scriptContent,
\* durationSeconds, visibility]; the prompt is modelled by its length, and the
\* optional ambientSoundId / musicTrackId are absent in every modelled body.
SafeParse(b) ==
    LET dur == ParseDuration(b.durationSeconds)
        vis == ParseVisibility(b.visibility)
        objectOk == /\ b.visualPromptLen >= MinPromptLen
                    /\ b.visualPromptLen <= MaxPromptLen
                    /\ b.scriptType \in SCRIPT_TYPE
                    /\ dur.ok
                    /\ vis.ok
    IN  [success |-> objectOk /\ ScriptContentRefine(b.scriptType, b.scriptContent),
         data |-> [visualPromptLen |-> b.visualPromptLen,
                   scriptType |-> b.scriptType,
                   scriptContent |-> b.scriptContent,
                   durationSeconds |-> dur.value,
                   visibility |-> vis.value]]

\* (mutant) the surcharge is added whenever a visibility was parsed
CreditsNeededAnyVisibility(durationSeconds, visibility) ==
    LET base == IF durationSeconds \in DOMAIN CREDITS_BY_DURATION
                   /\ CREDITS_BY_DURATION[durationSeconds] # 0
                THEN CREDITS_BY_DURATION[durationSeconds]
                ELSE 5
    IN  IF visibility # Undefined
        THEN base + PRIVATE_SURCHARGE
        ELSE base

\* let creditsNeeded = CREDITS_BY_DURATION[durationSeconds] || 5;
\* if (visibility === PRIVATE) creditsNeeded += PRIVATE_SURCHARGE;
CreditsNeeded(durationSeconds, visibility) ==
    LET base == IF durationSeconds \in DOMAIN CREDITS_BY_DURATION
                   /\ CREDITS_BY_DURATION[durationSeconds] # 0
                THEN CREDITS_BY_DURATION[durationSeconds]
                ELSE 5
    IN  IF visibility = VIDEO_VISIBILITY.PRIVATE
        THEN base + PRIVATE_SURCHARGE
        ELSE base


\* ------------------------------------------------ routes/credits.ts
\* purchaseCreditsSchema: packIndex is an integer in 0..3
PurchaseSafeParse(b) == b.packIndex >= 0 /\ b.packIndex <= 3

\* DEFAULT_CREDIT_PACKS, as far as the repository's tests fix it: pack 0 grants
\* 10 credits.  Indexed from 0 as in the source.
DEFAULT_CREDIT_PACKS == (0 :> [credits |-> 10])

\* ---------------------------------------------------------------- inputs
DurationInputs ==
    {[t |-> "number", v |-> n] : n \in {60, 120, 180, 300, 90}}
    \cup {[t |-> "string", v |-> s] : s \in {"60", "300", "90"}}
VisibilityInputs == {Undefined, "public", "private", "pending_review"}
ScriptTypeInputs == SCRIPT_TYPE \cup {"freeform"}
ScriptContentInputs == {Undefined, "", "breathe in"}
PromptLenInputs == {0, 1, 1000, 1001}

\* every combination of the field inputs
Bodies ==
    [visualPromptLen : PromptLenInputs,
     scriptType : ScriptTypeInputs,
     scriptContent : ScriptContentInputs,
     durationSeconds : DurationInputs,
     visibility : VisibilityInputs]

Body(len, st, sc, d, v) ==
    [visualPromptLen |-> len, scriptType |-> st, scriptContent |-> sc,
     durationSeconds |-> [t |-> "number", v |-> d], visibility |-> v]

\* the bodies concurrent handlers submit: costs 5, 8 and 18, and two bodies the
\* schema rejects
ConcBodies ==
    {Body(1, "ai_generated", Undefined, 60, Undefined),
     Body(1, "ai_generated", Undefined, 60, "private"),
     Body(1000, "user_provided", "breathe in", 300, "private"),
     Body(1, "ai_generated", Undefined, 90, "public"),
     Body(1, "template", "", 120, "public")}

PurchaseBodies == {[packIndex |-> 0], [packIndex |-> 4]}

InitBalances == {0, 13}
InputBalances == {0, 20}

\* ----------------------------------------------------------------- state
VARIABLES
    balance,        \* users.creditsBalance, committed: [Users -> Int]
    ledger,         \* credit_transactions, committed rows
    requests,       \* generation_requests, committed rows
    queue,          \* jobs of the video-generate queue
    rowLock,        \* users row -> handler whose open transaction updated it
    pc,             \* handler -> the await it is at
    route,          \* handler -> "generations" | "credits/purchase"
    reqUser,        \* handler -> request.user as set by authenticate
    body,           \* handler -> request.body
    creditsNeeded,  \* handler -> creditsNeeded (or pack.credits)
    txBalance,      \* handler -> creditsBalance its UPDATE ... RETURNING gave
    result,         \* handler -> id of the row its transaction returned
    resp,           \* handler -> the reply sent
    balance0,       \* history: creditsBalance at the start
    jobs,           \* job id -> what the queue keeps about the job
    proc,           \* job id -> the locals of processJob in the running attempt
    videos,         \* videos, committed rows
    progressReply,  \* the last reply of GET /api/generations/:id/progress
    adminReply,     \* the last reply of POST /api/admin/moderation
    listReply,      \* the last reply of GET /api/generations
    adapter         \* the last call of the video adapter and what it gave

wvars == <<jobs, proc, videos, progressReply, adminReply, listReply, adapter>>

vars == <<balance, ledger, requests, queue, rowLock, pc, route, reqUser, body,
          creditsNeeded, txBalance, result, resp, balance0, jobs, proc, videos,
          progressReply, adminReply, listReply, adapter>>

db == <<balance, ledger, requests>>

NoUser == [id |-> "", creditsBalance |-> 0]
NoJob == [state |-> "wait", attemptsMade |-> 0, failedEvents |-> {}, timeouts |-> 0,
          veoStarted |-> 0]
NoGenReq == [userId |-> "", scriptType |-> "", scriptContent |-> "<null>"]
NoProc ==
    [pc |-> "idle", genReq |-> NoGenReq, scriptText |-> "<null>",
     scriptCalled |-> FALSE, spoken |-> "<null>", synthCalls |-> 0,
     uploaded |-> {}, veoCalls |-> 0, veoJobId |-> "",
     videoStatus |-> "", videoError |-> "", polls |-> 0, pollProgress |-> 0,
     composeCalled |-> FALSE,
     tempDir |-> "none", video |-> "", err |-> ""]
NoProgressReply ==
    [user |-> "", id |-> 0, status |-> 0,
     body |-> [id |-> 0, status |-> "", progress |-> 0, videoId |-> "<null>"]]
NoAdminReply == [status |-> 0, videoId |-> "", action |-> ""]
NoResponse ==
    [http |-> "", error |-> "<undefined>", done |-> "<undefined>",
     response |-> [kind |-> "missing", predictions |-> <<>>]]
NoAdapterCall ==
    [op |-> "", response |-> NoResponse, fetched |-> <<>>, threw |-> "",
     state |-> "", error |-> "", downloadUri |-> "", stream |-> ""]
NoListReply ==
    [user |-> "",
     query |-> [page |-> [present |-> FALSE, text |-> <<>>],
                limit |-> [present |-> FALSE, text |-> <<>>]],
     status |-> 0, page |-> 0, limit |-> 0,
     data |-> <<>>]
NoReply == [status |-> 0, error |-> "", required |-> 0]
Reply(status, error, required) ==
    [status |-> status, error |-> error, required |-> required]

InitWith(B) ==
    /\ balance \in [Users -> B]
    /\ balance0 = balance
    /\ ledger = {}
    /\ requests = {}
    /\ queue = {}
    /\ rowLock = [u \in Users |-> None]
    /\ pc = [h \in Handlers |-> "new"]
    /\ route = [h \in Handlers |-> ""]
    /\ reqUser = [h \in Handlers |-> NoUser]
    /\ body = [h \in Handlers |-> Undefined]
    /\ creditsNeeded = [h \in Handlers |-> 0]
    /\ txBalance = [h \in Handlers |-> 0]
    /\ result = [h \in Handlers |-> None]
    /\ resp = [h \in Handlers |-> NoReply]
    /\ jobs = [j \in Handlers |-> NoJob]
    /\ proc = [j \in Handlers |-> NoProc]
    /\ videos = {}
    /\ progressReply = NoProgressReply
    /\ adminReply = NoAdminReply
    /\ listReply = NoListReply
    /\ adapter = NoAdapterCall

Init == InitWith(InitBalances)

\* ------------------------------------------------------- middleware/auth.ts
\* The onRequest hook: 401 without a valid bearer token, otherwise request.user
\* is the users row as committed now, creditsBalance included.
Authenticate(h) ==
    /\ pc[h] = "new"
    /\ \E r \in {"generations", "credits/purchase"} : route' = [route EXCEPT ![h] = r]
    /\ \/ /\ pc' = [pc EXCEPT ![h] = "done"]
          /\ resp' = [resp EXCEPT ![h] = Reply(401, "Invalid or expired token", 0)]
          /\ UNCHANGED reqUser
       \/ \E u \in Users :
            /\ reqUser' = [reqUser EXCEPT ![h] =
                              [id |-> u, creditsBalance |-> balance[u]]]
            /\ pc' = [pc EXCEPT ![h] = "handler"]
            /\ UNCHANGED resp
    /\ UNCHANGED <<db, queue, rowLock, body, creditsNeeded, txBalance, result, balance0, wvars>>


\* ------------------------------------------------ routes/generations.ts, POST /
\* const parsed = safeParse(request.body); 400 when it fails; otherwise the price.
\* Synchronous, so one step.  B is the set the body is drawn from.
ParseBody(h, B) ==
    /\ pc[h] = "handler"
    /\ route[h] = "generations"
    /\ \E b \in B :
         /\ body' = [body EXCEPT ![h] = b]
         /\ LET parsed == SafeParse(b)
            IN  IF ~parsed.success
                THEN /\ resp' = [resp EXCEPT ![h] = Reply(400, "flatten", 0)]
                     /\ pc' = [pc EXCEPT ![h] = "done"]
                     /\ UNCHANGED creditsNeeded
                ELSE /\ creditsNeeded' = [creditsNeeded EXCEPT ![h] =
                            CreditsNeeded(parsed.data.durationSeconds,
                                          parsed.data.visibility)]
                     /\ pc' = [pc EXCEPT ![h] = "txUpdate"]
                     /\ UNCHANGED resp
    /\ UNCHANGED <<db, queue, rowLock, route, reqUser, txBalance, result, balance0, wvars>>

\* UPDATE users SET credits_balance = credits_balance - :n
\*   WHERE id = :id AND credits_balance >= :n RETURNING credits_balance
\* evaluated on the row as it is when the statement holds the row lock.
\* snapshot is request.user.creditsBalance, which the statement does not use.
\* (mutant) the guard and the write use the balance read by authenticate
StaleDecrement(current, snapshot, amount) ==
    IF snapshot >= amount
    THEN [updated |-> TRUE, creditsBalance |-> snapshot - amount]
    ELSE [updated |-> FALSE, creditsBalance |-> current]

GuardedDecrement(current, snapshot, amount) ==
    IF current >= amount
    THEN [updated |-> TRUE, creditsBalance |-> current - amount]
    ELSE [updated |-> FALSE, creditsBalance |-> current]

\* (mutant) the decrement is written and committed before the balance is
\* checked; a rejected submission keeps it
TxUpdateChargeThenReject(h) ==
    LET u == reqUser[h].id
    IN  /\ pc[h] = "txUpdate"
        /\ rowLock[u] = None
        /\ IF balance[u] < creditsNeeded[h]
           THEN /\ balance' = [balance EXCEPT ![u] = @ - creditsNeeded[h]]
                /\ resp' = [resp EXCEPT ![h] =
                               Reply(402, "Insufficient credits", creditsNeeded[h])]
                /\ pc' = [pc EXCEPT ![h] = "done"]
                /\ UNCHANGED <<rowLock, txBalance>>
           ELSE /\ rowLock' = [rowLock EXCEPT ![u] = h]
                /\ txBalance' = [txBalance EXCEPT ![h] = balance[u] - creditsNeeded[h]]
                /\ pc' = [pc EXCEPT ![h] = "txLedger"]
                /\ UNCHANGED <<balance, resp>>
        /\ UNCHANGED <<ledger, requests, queue, route, reqUser, body, creditsNeeded,
                       result, balance0, wvars>>

\* First statement of the transaction.  It waits while another open
\* transaction holds the row; with no row returned the callback throws
\* INSUFFICIENT_CREDITS, the transaction rolls back and the catch answers 402.
TxUpdate(h) ==
    LET u == reqUser[h].id
        upd == GuardedDecrement(balance[u], reqUser[h].creditsBalance,
                                creditsNeeded[h])
    IN  /\ pc[h] = "txUpdate"
        /\ rowLock[u] = None
        /\ IF ~upd.updated
           THEN /\ resp' = [resp EXCEPT ![h] =
                               Reply(402, "Insufficient credits", creditsNeeded[h])]
                /\ pc' = [pc EXCEPT ![h] = "done"]
                /\ UNCHANGED <<rowLock, txBalance>>
           ELSE /\ rowLock' = [rowLock EXCEPT ![u] = h]
                /\ txBalance' = [txBalance EXCEPT ![h] = upd.creditsBalance]
                /\ pc' = [pc EXCEPT ![h] = "txLedger"]
                /\ UNCHANGED resp
        /\ UNCHANGED <<db, queue, route, reqUser, body, creditsNeeded, result, balance0, wvars>>

\* (mutant) the catch block answers 500 but the decrement stays
RollbackKeepsDecrement(h) ==
    /\ balance' = [balance EXCEPT ![reqUser[h].id] = txBalance[h]]
    /\ rowLock' = [rowLock EXCEPT ![reqUser[h].id] = None]
    /\ resp' = [resp EXCEPT ![h] = Reply(500, "Internal server error", 0)]
    /\ pc' = [pc EXCEPT ![h] = "done"]
    /\ UNCHANGED <<ledger, requests, queue, route, reqUser, body, creditsNeeded,
                   txBalance, result, balance0, wvars>>

\* ROLLBACK of h's open transaction, then the catch block with result
\* undefined: log and answer 500.
RollbackAnd500(h) ==
    /\ rowLock' = [rowLock EXCEPT ![reqUser[h].id] = None]
    /\ resp' = [resp EXCEPT ![h] = Reply(500, "Internal server error", 0)]
    /\ pc' = [pc EXCEPT ![h] = "done"]
    /\ UNCHANGED <<db, queue, route, reqUser, body, creditsNeeded, txBalance,
                   result, balance0, wvars>>

\* tx.insert(creditTransactions).values({userId, amount: -creditsNeeded, type});
\* tx is history: the transaction that wrote the row
SpendRow(h) ==
    [tx |-> h, userId |-> reqUser[h].id, amount |-> -creditsNeeded[h],
     type |-> CREDIT_TRANSACTION_TYPE.GENERATION_SPEND]

TxInsertLedger(h) ==
    /\ pc[h] = "txLedger"
    /\ \/ /\ pc' = [pc EXCEPT ![h] = "txRequest"]
          /\ UNCHANGED <<db, queue, rowLock, route, reqUser, body, creditsNeeded,
                         txBalance, result, resp, balance0, wvars>>
       \/ RollbackAnd500(h)

\* id of the row the insert returns: generated by the database, fresh
NewRequestId(h) == h

\* (mutant) creditsCharged records the base price, without the surcharge
NewRequestBaseCharge(h) ==
    LET data == SafeParse(body[h]).data
    IN  [id |-> NewRequestId(h),
         tx |-> h,
         userId |-> reqUser[h].id,
         status |-> GENERATION_STATUS.PENDING,
         visualPromptLen |-> data.visualPromptLen,
         scriptType |-> data.scriptType,
         scriptContent |-> IF Truthy(data.scriptContent)
                           THEN data.scriptContent ELSE Null,
         durationSeconds |-> data.durationSeconds,
         creditsCharged |-> CREDITS_BY_DURATION[data.durationSeconds],
         progress |-> 0,
         videoId |-> Null]

\* tx.insert(generationRequests).values({...}).returning(); progress and videoId
\* take the column defaults.  tx is history: the transaction that wrote the row.
NewRequest(h) ==
    LET data == SafeParse(body[h]).data
    IN  [id |-> NewRequestId(h),
         tx |-> h,
         userId |-> reqUser[h].id,
         status |-> GENERATION_STATUS.PENDING,
         visualPromptLen |-> data.visualPromptLen,
         scriptType |-> data.scriptType,
         scriptContent |-> IF Truthy(data.scriptContent)
                           THEN data.scriptContent ELSE Null,
         durationSeconds |-> data.durationSeconds,
         creditsCharged |-> creditsNeeded[h],
         progress |-> 0,
         videoId |-> Null]

\* Last statement of the callback, then COMMIT: the decrement, the ledger row
\* and the request row become visible together and the row lock is released.
TxInsertRequest(h) ==
    LET u == reqUser[h].id
    IN  /\ pc[h] = "txRequest"
        /\ \/ /\ balance' = [balance EXCEPT ![u] = txBalance[h]]
              /\ ledger' = ledger \cup {SpendRow(h)}
              /\ requests' = requests \cup {NewRequest(h)}
              /\ rowLock' = [rowLock EXCEPT ![u] = None]
              /\ result' = [result EXCEPT ![h] = NewRequestId(h)]
              /\ pc' = [pc EXCEPT ![h] = "enqueue"]
              /\ UNCHANGED <<queue, route, reqUser, body, creditsNeeded, txBalance,
                             resp, balance0, wvars>>
           \/ RollbackAnd500(h)

\* videoGenerateQueue.add(name, data, {jobId}): the job as the handler hands it
\* to the queue
QueueAdd(q, name, data, jobId) ==
    q \cup {[id |-> jobId, name |-> name, data |-> data]}

\* (mutant) the job is not added (the enqueue is left for later)
EnqueueLater(q, id) == q

\* the job the handler adds: ('generate', {generationRequestId: result.id},
\* {jobId: result.id})
EnqueueJob(q, id) == QueueAdd(q, "generate", [generationRequestId |-> id], id)

\* await videoGenerateQueue.add(...); when it throws the catch block runs with
\* result set
Enqueue(h) ==
    /\ pc[h] = "enqueue"
    /\ \/ /\ queue' = EnqueueJob(queue, result[h])
          /\ pc' = [pc EXCEPT ![h] = "reply"]
       \/ /\ pc' = [pc EXCEPT ![h] = "markFailed"]
          /\ UNCHANGED queue
    /\ UNCHANGED <<db, rowLock, route, reqUser, body, creditsNeeded, txBalance,
                   result, resp, balance0, wvars>>

\* (mutant) the update has no WHERE clause
SetStatusEveryRow(rows, id, status) ==
    {[r EXCEPT !.status = status] : r \in rows}

\* db.update(generationRequests).set({status: FAILED}).where(eq(id, result.id))
SetStatus(rows, id, status) ==
    {IF r.id = id THEN [r EXCEPT !.status = status] ELSE r : r \in rows}

\* catch block after a failed queue.add: mark the request failed (an error of
\* this update is logged and swallowed), then 500
MarkFailed(h) ==
    /\ pc[h] = "markFailed"
    /\ \/ requests' = SetStatus(requests, result[h], GENERATION_STATUS.FAILED)
       \/ UNCHANGED requests
    /\ resp' = [resp EXCEPT ![h] = Reply(500, "Internal server error", 0)]
    /\ pc' = [pc EXCEPT ![h] = "done"]
    /\ UNCHANGED <<balance, ledger, queue, rowLock, route, reqUser, body,
                   creditsNeeded, txBalance, result, balance0, wvars>>

\* return reply.status(201).send(result)
SendCreated(h) ==
    /\ pc[h] = "reply"
    /\ resp' = [resp EXCEPT ![h] = Reply(201, "", 0)]
    /\ pc' = [pc EXCEPT ![h] = "done"]
    /\ UNCHANGED <<db, queue, rowLock, route, reqUser, body, creditsNeeded,
                   txBalance, result, balance0, wvars>>


\* ------------------------------------------------ routes/credits.ts, POST /purchase
\* safeParse, then pack = DEFAULT_CREDIT_PACKS[packIndex]; 400 on either failure
PurchaseParse(h) ==
    /\ pc[h] = "handler"
    /\ route[h] = "credits/purchase"
    /\ \E b \in PurchaseBodies :
         /\ body' = [body EXCEPT ![h] = b]
         /\ IF ~PurchaseSafeParse(b) \/ b.packIndex \notin DOMAIN DEFAULT_CREDIT_PACKS
            THEN /\ resp' = [resp EXCEPT ![h] = Reply(400, "flatten", 0)]
                 /\ pc' = [pc EXCEPT ![h] = "done"]
                 /\ UNCHANGED creditsNeeded
            ELSE /\ creditsNeeded' = [creditsNeeded EXCEPT ![h] =
                                         DEFAULT_CREDIT_PACKS[b.packIndex].credits]
                 /\ pc' = [pc EXCEPT ![h] = "purchaseUpdate"]
                 /\ UNCHANGED resp
    /\ UNCHANGED <<db, queue, rowLock, route, reqUser, txBalance, result, balance0, wvars>>

\* UPDATE users SET credits_balance = credits_balance + :credits WHERE id = :id
\* RETURNING credits_balance; snapshot is request.user.creditsBalance, unused
\* (mutant) the new balance is computed from the balance read by authenticate
StaleIncrement(current, snapshot, amount) == snapshot + amount

AtomicIncrement(current, snapshot, amount) == current + amount

PurchaseTxUpdate(h) ==
    LET u == reqUser[h].id
    IN  /\ pc[h] = "purchaseUpdate"
        /\ rowLock[u] = None
        /\ rowLock' = [rowLock EXCEPT ![u] = h]
        /\ txBalance' = [txBalance EXCEPT ![h] =
                AtomicIncrement(balance[u], reqUser[h].creditsBalance, creditsNeeded[h])]
        /\ pc' = [pc EXCEPT ![h] = "purchaseLedger"]
        /\ UNCHANGED <<db, queue, route, reqUser, body, creditsNeeded, result, resp,
                       balance0, wvars>>

\* tx.insert(creditTransactions).values({userId, amount: pack.credits, type: PURCHASE})
PurchaseRow(h) ==
    [tx |-> h, userId |-> reqUser[h].id, amount |-> creditsNeeded[h],
     type |-> CREDIT_TRANSACTION_TYPE.PURCHASE]

\* the ledger insert, then COMMIT and the 200 reply; an error rolls back and the
\* catch answers 500
PurchaseTxInsert(h) ==
    LET u == reqUser[h].id
    IN  /\ pc[h] = "purchaseLedger"
        /\ \/ /\ balance' = [balance EXCEPT ![u] = txBalance[h]]
              /\ ledger' = ledger \cup {PurchaseRow(h)}
              /\ rowLock' = [rowLock EXCEPT ![u] = None]
              /\ resp' = [resp EXCEPT ![h] = Reply(200, "", 0)]
              /\ pc' = [pc EXCEPT ![h] = "done"]
              /\ UNCHANGED <<requests, queue, route, reqUser, body, creditsNeeded,
                             txBalance, result, balance0, wvars>>
           \/ RollbackAnd500(h)

\* ------------------------------------------------ Math
MathMax(a, b) == IF a >= b THEN a ELSE b
MathMin(a, b) == IF a <= b THEN a ELSE b

\* Math.round(num / den) for den > 0: the nearest integer, a half rounded up
MathRound(num, den) == (2 * num + den) \div (2 * den)

\* ------------------------------------------------ jobs/queue.ts
\* defaultJobOptions.attempts; the failed hook reads it as job.opts.attempts ?? 3
Attempts == 3

\* new Worker(..., {concurrency: 2})
Concurrency == 2

\* ------------------------------------------------ jobs/video-generate-worker.ts
VEO_MAX_POLLS == 48

VideoStates == {"processing", "completed", "failed"}

\* the messages of a failed generation: data.error.message of the provider, or
\* the adapter's own when the operation is done without a video URI
VideoErrors == {"quota exceeded", "Veo completed but returned no video URI"}

\* what checkStatus resolves to: {state, error}; error comes with state failed
CheckStatusResults ==
    {[state |-> s, error |-> ""] : s \in VideoStates \ {"failed"}}
    \cup {[state |-> "failed", error |-> e] : e \in VideoErrors}

\* the positions of processJob inside try { ... } finally { cleanupTempDir() }
TryBlock == {"comp95", "upload", "insertVideo", "complete", "finish"}

\* the positions whose await can reject without anything else being modelled
Awaits ==
    {"load", "script5", "script15", "voice20", "voice35", "video40",
     "checkStatus", "loop", "comp78", "compose"} \cup TryBlock

Active(j) == jobs[j].state = "active"
At(j, p) == Active(j) /\ proc[j].pc = p
Goto(j, p) == [proc EXCEPT ![j].pc = p]

\* (mutant) the update rewrites the whole row and drops the amount charged
UpdateGenerationWholeRow(rows, id, status, progress, extra) ==
    {IF r.id = id
     THEN [f \in DOMAIN r |->
             IF f \in DOMAIN extra THEN extra[f]
             ELSE IF f = "status" THEN status
             ELSE IF f = "progress" THEN progress
             ELSE IF f = "creditsCharged" THEN 0
             ELSE r[f]]
     ELSE r : r \in rows}

\* db.update(generationRequests).set({status, progress, updatedAt, ...extra})
\*   .where(eq(generationRequests.id, id))
UpdateGeneration(rows, id, status, progress, extra) ==
    {IF r.id = id
     THEN [f \in DOMAIN r |->
             IF f \in DOMAIN extra THEN extra[f]
             ELSE IF f = "status" THEN status
             ELSE IF f = "progress" THEN progress
             ELSE r[f]]
     ELSE r : r \in rows}

NoExtra == [x \in {} |-> 0]

\* (mutant) the hook marks the request on every failed attempt
MarksFailedAlways(attemptsMade) == attemptsMade >= 1

\* (mutant) the hook asks for one more attempt than the queue makes
MarksFailedNever(attemptsMade) == attemptsMade > Attempts

\* if (job.attemptsMade >= (job.opts.attempts ?? 3))
MarksFailed(attemptsMade) == attemptsMade >= Attempts

\* the queue after processJob rejected: attemptsMade counts the attempt, the job
\* waits for its retry while attempts remain and is failed otherwise. The
\* 'failed' event is emitted either way; the listener tests attemptsMade before
\* its first await, so what stays pending is the update of a marking event.
\* timeouts counts the attempts that ended with the poll timeout.
JobFailed(j, cause) ==
    LET n == jobs[j].attemptsMade + 1
    IN  [jobs EXCEPT ![j] =
            [state |-> IF n < Attempts THEN "wait" ELSE "failed",
             attemptsMade |-> n,
             failedEvents |-> IF MarksFailed(n)
                              THEN jobs[j].failedEvents \cup {n}
                              ELSE jobs[j].failedEvents,
             timeouts |-> IF cause = "timeout" THEN jobs[j].timeouts + 1
                          ELSE jobs[j].timeouts,
             veoStarted |-> jobs[j].veoStarted]]

\* processJob is over: what is left is the scratch directory and the error it
\* rejected with
Ended(j, dir, called, cause) ==
    [proc EXCEPT ![j] = [NoProc EXCEPT !.tempDir = dir, !.composeCalled = called,
                                       !.err = cause]]

\* an await of processJob rejects: inside the try block the finally runs first
Throw(j, cause) ==
    IF proc[j].pc \in TryBlock
    THEN /\ proc' = [proc EXCEPT ![j].pc = "cleanup", ![j].err = cause]
         /\ UNCHANGED jobs
    ELSE /\ proc' = Ended(j, proc[j].tempDir, proc[j].composeCalled, cause)
         /\ jobs' = JobFailed(j, cause)

api == <<balance, ledger, queue, rowLock, pc, route, reqUser, body, creditsNeeded,
         txBalance, result, resp, balance0>>

\* the worker takes a waiting job of the queue
StartAttempt(j) ==
    /\ \E q \in queue : q.id = j
    /\ jobs[j].state = "wait"
    /\ Cardinality({k \in Handlers : Active(k)}) < Concurrency
    /\ jobs' = [jobs EXCEPT ![j].state = "active"]
    /\ proc' = [proc EXCEPT ![j] = [NoProc EXCEPT !.pc = "load"]]
    /\ UNCHANGED <<api, requests, videos, progressReply, adminReply, listReply, adapter>>

\* (mutant) the script is generated for every request
NeedsScriptAlways(scriptType, scriptContent) == TRUE

\* (mutant) the script is generated only when none is stored
NeedsScriptWhenEmpty(scriptType, scriptContent) == ~Truthy(scriptContent)

\* if (genReq.scriptType === SCRIPT_TYPE.AI_GENERATED || !scriptText)
NeedsScript(scriptType, scriptContent) ==
    scriptType = "ai_generated" \/ ~Truthy(scriptContent)

\* const [genReq] = select ... where id = generationRequestId; throw if missing;
\* let scriptText = genReq.scriptContent; the test of stage 1
LoadRequest(j) ==
    /\ At(j, "load")
    /\ LET found == {r \in requests : r.id = j}
       IN  IF found = {}
           THEN Throw(j, "not found")
           ELSE LET genReq == CHOOSE r \in found : TRUE
                IN  /\ proc' = [proc EXCEPT
                          ![j].genReq = [userId |-> genReq.userId,
                                         scriptType |-> genReq.scriptType,
                                         scriptContent |-> genReq.scriptContent],
                          ![j].scriptText = genReq.scriptContent,
                          ![j].pc = IF NeedsScript(genReq.scriptType,
                                                   genReq.scriptContent)
                                    THEN "script5" ELSE "voice20"]
                    /\ UNCHANGED jobs
    /\ UNCHANGED <<api, requests, videos, progressReply, adminReply, listReply, adapter>>

\* (mutant) the loop gives up one poll later
PollLimitLate(polls) == polls > VEO_MAX_POLLS

\* if (polls >= VEO_MAX_POLLS)
PollLimit(polls) == polls >= VEO_MAX_POLLS

\* the await processJob is at rejects (database, provider, storage or Redis); at
\* the top of the loop the next await is the sleep of a further poll or, after
\* the loop, the update to 75
AttemptThrows(j) ==
    /\ Active(j)
    /\ proc[j].pc \in Awaits
    /\ proc[j].pc = "loop" =>
          \/ proc[j].videoStatus = "completed"
          \/ proc[j].videoStatus = "processing" /\ ~PollLimit(proc[j].polls)
    /\ Throw(j, "error")
    /\ UNCHANGED <<api, requests, videos, progressReply, adminReply, listReply, adapter>>

\* one updateGeneration(id, status, progress) between two positions
Stage(j, from, status, progress, to) ==
    /\ At(j, from)
    /\ requests' = UpdateGeneration(requests, j, status, progress, NoExtra)
    /\ proc' = Goto(j, to)
    /\ UNCHANGED <<api, jobs, videos, progressReply, adminReply, listReply, adapter>>

\* stage 1: updateGeneration(GENERATING_SCRIPT, 5)
ScriptStart(j) ==
    Stage(j, "script5", GENERATION_STATUS.GENERATING_SCRIPT, 5, "script15")

\* generateScript, then updateGeneration(GENERATING_SCRIPT, 15, {scriptContent})
ScriptDone(j) ==
    /\ At(j, "script15")
    /\ requests' = UpdateGeneration(requests, j,
                      GENERATION_STATUS.GENERATING_SCRIPT, 15,
                      [scriptContent |-> "generated script"])
    /\ proc' = [proc EXCEPT ![j].scriptText = "generated script",
                            ![j].scriptCalled = TRUE,
                            ![j].pc = "voice20"]
    /\ UNCHANGED <<api, jobs, videos, progressReply, adminReply, listReply, adapter>>

\* stage 2: updateGeneration(GENERATING_VOICE, 20)
VoiceStart(j) ==
    Stage(j, "voice20", GENERATION_STATUS.GENERATING_VOICE, 20, "voice35")

\* the keys of the objects one attempt uploads
VoiceoverKey == "voiceover.mp3"
FinalKeys == {"final.mp4", "thumbnail.jpg"}

\* synthesize(scriptText), upload of the voiceover,
\* updateGeneration(GENERATING_VOICE, 35); spoken is the text synthesized
VoiceDone(j) ==
    /\ At(j, "voice35")
    /\ requests' = UpdateGeneration(requests, j,
                      GENERATION_STATUS.GENERATING_VOICE, 35, NoExtra)
    /\ proc' = [proc EXCEPT ![j].spoken = proc[j].scriptText,
                            ![j].synthCalls = @ + 1,
                            ![j].uploaded = @ \cup {VoiceoverKey},
                            ![j].pc = "video40"]
    /\ UNCHANGED <<api, jobs, videos, progressReply, adminReply, listReply, adapter>>

\* stage 3: updateGeneration(GENERATING_VIDEO, 40)
VideoStart(j) ==
    Stage(j, "video40", GENERATION_STATUS.GENERATING_VIDEO, 40, "checkStatus")

\* (mutant) the attempt goes on with the provider job of the attempt before
VeoJobReused(n) == "veo-" \o ToString(IF n = 0 THEN 1 ELSE n)

\* { jobId: data.name }: the provider names the n + 1st operation started for
\* the request; a name is given once
VeoJobId(n) == "veo-" \o ToString(n + 1)

\* const {jobId: veoJobId} = await generateVideo(...), then
\* let videoStatus = await checkStatus(veoJobId); let polls = 0
FirstCheckStatus(j) ==
    /\ At(j, "checkStatus")
    /\ \E st \in CheckStatusResults :
          proc' = [proc EXCEPT ![j].videoStatus = st.state,
                               ![j].videoError = st.error,
                               ![j].veoCalls = @ + 1,
                               ![j].veoJobId = VeoJobId(jobs[j].veoStarted),
                               ![j].polls = 0, ![j].pc = "loop"]
    /\ jobs' = [jobs EXCEPT ![j].veoStarted = @ + 1]
    /\ UNCHANGED <<api, requests, videos, progressReply, adminReply, listReply, adapter>>

Polling(j) ==
    /\ At(j, "loop")
    /\ proc[j].videoStatus \notin {"completed", "failed"}

\* (mutant) the interpolation is truncated, not rounded
PollProgressFloor(polls) == 40 + (polls * 35) \div VEO_MAX_POLLS

\* const pollProgress = 40 + Math.round((polls / VEO_MAX_POLLS) * 35)
PollProgress(polls) == 40 + MathRound(polls * 35, VEO_MAX_POLLS)

\* one turn of the while loop: sleep, checkStatus, polls++,
\* job.updateProgress(Math.min(pollProgress, 75))
Poll(j) ==
    /\ Polling(j)
    /\ ~PollLimit(proc[j].polls)
    /\ \E st \in CheckStatusResults :
          proc' = [proc EXCEPT
                      ![j].videoStatus = st.state,
                      ![j].videoError = st.error,
                      ![j].polls = @ + 1,
                      ![j].pollProgress =
                          MathMin(PollProgress(proc[j].polls + 1), 75)]
    /\ UNCHANGED <<api, jobs, requests, videos, progressReply, adminReply, listReply, adapter>>

\* if (polls >= VEO_MAX_POLLS) throw new Error('... timed out after 8 minutes')
PollTimeout(j) ==
    /\ Polling(j)
    /\ PollLimit(proc[j].polls)
    /\ Throw(j, "timeout")
    /\ UNCHANGED <<api, requests, videos, progressReply, adminReply, listReply, adapter>>

\* (mutant) a failed generation is taken for a finished one
VideoFailedIgnored(j) ==
    /\ proc[j].videoStatus = "failed"
    /\ Stage(j, "loop", GENERATION_STATUS.GENERATING_VIDEO, 75, "comp78")

\* if (videoStatus.state === 'failed')
\*   throw new Error(`Veo generation failed: ${videoStatus.error}`)
VideoFailed(j) ==
    /\ At(j, "loop")
    /\ proc[j].videoStatus = "failed"
    /\ Throw(j, "Veo generation failed: " \o proc[j].videoError)
    /\ UNCHANGED <<api, requests, videos, progressReply, adminReply, listReply, adapter>>

\* after the loop: updateGeneration(GENERATING_VIDEO, 75)
VideoDone(j) ==
    /\ proc[j].videoStatus = "completed"
    /\ Stage(j, "loop", GENERATION_STATUS.GENERATING_VIDEO, 75, "comp78")

\* stage 4: updateGeneration(COMPOSITING, 78)
CompositingStart(j) ==
    Stage(j, "comp78", GENERATION_STATUS.COMPOSITING, 78, "compose")

\* the downloads, then compose(): mkdir of the scratch directory, ffmpeg; it
\* returns cleanupTempDir only when it succeeds, and rejects without removing
\* the directory otherwise
Compose(j) ==
    /\ At(j, "compose")
    /\ \/ /\ proc' = [proc EXCEPT ![j].composeCalled = TRUE,
                                  ![j].tempDir = "exists", ![j].pc = "comp95"]
          /\ UNCHANGED jobs
       \/ /\ \E d \in {"none", "exists"} : proc' = Ended(j, d, TRUE, "compose")
          /\ jobs' = JobFailed(j, "compose")
    /\ UNCHANGED <<api, requests, videos, progressReply, adminReply, listReply, adapter>>

\* try { updateGeneration(COMPOSITING, 95)
Composited(j) ==
    Stage(j, "comp95", GENERATION_STATUS.COMPOSITING, 95, "upload")

\* (mutant) Promise.all is taken to be settled by the first upload
UploadFinalFirstOnly(j) ==
    /\ At(j, "upload")
    /\ \E k \in FinalKeys \ proc[j].uploaded :
          proc' = [proc EXCEPT ![j].uploaded = @ \cup {k},
                               ![j].pc = "insertVideo"]
    /\ UNCHANGED <<api, jobs, requests, videos, progressReply, adminReply, listReply, adapter>>

\* stage 5: await Promise.all([upload(videoKey), upload(thumbKey)]): the two
\* uploads end in either order, and the insert follows the second
UploadFinal(j) ==
    /\ At(j, "upload")
    /\ \E k \in FinalKeys \ proc[j].uploaded :
          proc' = [proc EXCEPT
                      ![j].uploaded = @ \cup {k},
                      ![j].pc = IF FinalKeys \subseteq proc[j].uploaded \cup {k}
                                THEN "insertVideo" ELSE "upload"]
    /\ UNCHANGED <<api, jobs, requests, videos, progressReply, adminReply, listReply, adapter>>

\* id: uuid().defaultRandom(), a value no other row has
NewVideoId == "video-" \o ToString(Cardinality(videos) + 1)

\* (mutant) the row is inserted as visible
NewVideoPublic(j) ==
    [id |-> NewVideoId,
     userId |-> proc[j].genReq.userId,
     storageKey |-> j,
     visibility |-> VIDEO_VISIBILITY.PUBLIC,
     moderationStatus |-> MODERATION_STATUS.APPROVED,
     viewCount |-> 0]

\* db.insert(videos).values({userId, title, storageKey, thumbnailKey,
\*   durationSeconds, visibility: PENDING_REVIEW, moderationStatus: PENDING, ...})
NewVideo(j) ==
    [id |-> NewVideoId,
     userId |-> proc[j].genReq.userId,
     storageKey |-> j,
     visibility |-> VIDEO_VISIBILITY.PENDING_REVIEW,
     moderationStatus |-> MODERATION_STATUS.PENDING,
     viewCount |-> 0]

\* the insert of the video row
InsertVideo(j) ==
    /\ At(j, "insertVideo")
    /\ videos' = videos \cup {NewVideo(j)}
    /\ proc' = [proc EXCEPT ![j].video = NewVideoId, ![j].pc = "complete"]
    /\ UNCHANGED <<api, jobs, requests, progressReply, adminReply, listReply, adapter>>

\* updateGeneration(COMPLETED, 100, {videoId: video.id})
Complete(j) ==
    /\ At(j, "complete")
    /\ requests' = UpdateGeneration(requests, j, GENERATION_STATUS.COMPLETED, 100,
                                    [videoId |-> proc[j].video])
    /\ proc' = Goto(j, "finish")
    /\ UNCHANGED <<api, jobs, videos, progressReply, adminReply, listReply, adapter>>

\* await job.updateProgress(100) }
Finish(j) ==
    /\ At(j, "finish")
    /\ proc' = Goto(j, "cleanup")
    /\ UNCHANGED <<api, jobs, requests, videos, progressReply, adminReply, listReply, adapter>>

\* finally { await compositionResult.cleanupTempDir() }, then processJob returns
\* or the pending error is rethrown
Cleanup(j) ==
    /\ At(j, "cleanup")
    /\ proc' = Ended(j, "removed", TRUE, proc[j].err)
    /\ IF proc[j].err = ""
       THEN jobs' = [jobs EXCEPT ![j].state = "completed"]
       ELSE jobs' = JobFailed(j, proc[j].err)
    /\ UNCHANGED <<api, requests, videos, progressReply, adminReply, listReply, adapter>>

\* await updateGeneration(generationRequestId, GENERATION_STATUS.FAILED, 0)
FailedUpdate(rows, id) ==
    UpdateGeneration(rows, id, GENERATION_STATUS.FAILED, 0, NoExtra)

\* (mutant) the hook gives the credits of the failed request back
FailedHookRefund(j, Writes) ==
    /\ \E n \in jobs[j].failedEvents :
          jobs' = [jobs EXCEPT ![j].failedEvents = @ \ {n}]
    /\ requests' = FailedUpdate(requests, j)
    /\ balance' = [u \in Users |->
                     IF \E r \in requests : r.id = j /\ r.userId = u
                     THEN balance[u]
                          + (CHOOSE r \in requests : r.id = j).creditsCharged
                     ELSE balance[u]]
    /\ UNCHANGED <<ledger, queue, rowLock, pc, route, reqUser, body,
                   creditsNeeded, txBalance, result, resp, balance0, proc, videos,
                   progressReply, adminReply, listReply, adapter>>

\* videoGenerateWorker.on('failed', ...): the update of a marking event; Writes
\* holds the outcomes of the database write (TRUE: written, FALSE: rejected)
FailedHook(j, Writes) ==
    /\ \E n \in jobs[j].failedEvents :
          /\ jobs' = [jobs EXCEPT ![j].failedEvents = @ \ {n}]
          /\ \E written \in Writes :
                requests' = IF written THEN FailedUpdate(requests, j)
                            ELSE requests
    /\ UNCHANGED <<api, proc, videos, progressReply, adminReply, listReply, adapter>>

\* the steps of the worker for job j
Worker(j, Writes) ==
    \/ StartAttempt(j)
    \/ LoadRequest(j)
    \/ AttemptThrows(j)
    \/ ScriptStart(j)
    \/ ScriptDone(j)
    \/ VoiceStart(j)
    \/ VoiceDone(j)
    \/ VideoStart(j)
    \/ FirstCheckStatus(j)
    \/ Poll(j)
    \/ PollTimeout(j)
    \/ VideoFailed(j)
    \/ VideoDone(j)
    \/ CompositingStart(j)
    \/ Compose(j)
    \/ Composited(j)
    \/ UploadFinal(j)
    \/ InsertVideo(j)
    \/ Complete(j)
    \/ Finish(j)
    \/ Cleanup(j)
    \/ FailedHook(j, Writes)

\* ------------------------------------------------ services/ai/video/veo-adapter.ts
\* What the operations endpoint answers: the fetch rejects ("network"), or the
\* HTTP status is not ok, or the body is {done?, error?, response?:
\* {predictions?: [{videoUri?}]}}. A field that is absent is Undefined; done is
\* "true" or "false"; response.kind tells whether response and predictions are
\* there.
VeoPredictions ==
    {<<>>, <<[videoUri |-> Undefined]>>, <<[videoUri |-> ""]>>,
     <<[videoUri |-> "uri-a"]>>,
     <<[videoUri |-> Undefined], [videoUri |-> "uri-b"]>>,
     <<[videoUri |-> "uri-a"], [videoUri |-> "uri-b"]>>}
VeoBodies ==
    {[kind |-> "missing", predictions |-> <<>>],
     [kind |-> "noPredictions", predictions |-> <<>>]}
    \cup {[kind |-> "list", predictions |-> ps] : ps \in VeoPredictions}

VeoResponses ==
    {[NoResponse EXCEPT !.http = h] : h \in {"network", "notOk"}}
    \cup {[http |-> "ok", error |-> e, done |-> d, response |-> b] :
             e \in {Undefined, Null, "quota exceeded"},
             d \in {Undefined, "false", "true"},
             b \in VeoBodies}

\* data.response?.predictions?.[0]?.videoUri
FirstVideoUri(data) ==
    IF data.response.kind = "list" /\ Len(data.response.predictions) >= 1
    THEN data.response.predictions[1].videoUri
    ELSE Undefined

\* what a call of the adapter resolves to, or the error it rejects with
Rejects(msg) == [NoAdapterCall EXCEPT !.threw = msg]
Resolves(state, error, uri) ==
    [NoAdapterCall EXCEPT !.state = state, !.error = error, !.downloadUri = uri]

\* (mutant) done is looked at before the error field
CheckStatusDoneFirst(res) ==
    IF res.http = "network" THEN Rejects("network error")
    ELSE IF res.http # "ok" THEN Rejects("Veo checkStatus failed")
    ELSE IF res.done # "true" THEN Resolves("processing", "", "")
    ELSE IF res.error \notin {Undefined, Null}
         THEN Resolves("failed", res.error, "")
    ELSE IF FirstVideoUri(res) \in {Undefined, ""}
         THEN Resolves("failed", "Veo completed but returned no video URI", "")
    ELSE Resolves("completed", "", FirstVideoUri(res))

\* checkStatus(jobId): fetch; if (!res.ok) throw; if (data.error) failed;
\* if (!data.done) processing; if (!videoUri) failed; completed
CheckStatus(res) ==
    IF res.http = "network" THEN Rejects("network error")
    ELSE IF res.http # "ok" THEN Rejects("Veo checkStatus failed")
    ELSE IF res.error \notin {Undefined, Null}
         THEN Resolves("failed", res.error, "")
    ELSE IF res.done # "true" THEN Resolves("processing", "", "")
    ELSE IF FirstVideoUri(res) \in {Undefined, ""}
         THEN Resolves("failed", "Veo completed but returned no video URI", "")
    ELSE Resolves("completed", "", FirstVideoUri(res))

\* the outcomes of the fetch of the download
DownloadFetches == {"network", "notOk", "ok"}

\* (mutant) the download is fetched whatever the state of the job
DownloadResultUnchecked(res, dl) ==
    LET status == CheckStatus(res)
    IN  IF status.threw # "" THEN status
        ELSE IF dl = "network"
             THEN [Rejects("network error") EXCEPT !.fetched = <<status.downloadUri>>]
        ELSE IF dl # "ok"
             THEN [Rejects("Veo download failed") EXCEPT
                      !.fetched = <<status.downloadUri>>]
        ELSE [NoAdapterCall EXCEPT !.fetched = <<status.downloadUri>>,
                                   !.stream = status.downloadUri]

\* downloadResult(jobId): const status = await this.checkStatus(jobId);
\* if (status.state !== 'completed') throw; fetch(status.downloadUri);
\* if (!res.ok) throw; return the body as a stream
DownloadResult(res, dl) ==
    LET status == CheckStatus(res)
    IN  IF status.threw # "" THEN status
        ELSE IF status.state # "completed"
             THEN Rejects("Cannot download: job is " \o status.state)
        ELSE IF dl = "network"
             THEN [Rejects("network error") EXCEPT !.fetched = <<status.downloadUri>>]
        ELSE IF dl # "ok"
             THEN [Rejects("Veo download failed") EXCEPT
                      !.fetched = <<status.downloadUri>>]
        ELSE [NoAdapterCall EXCEPT !.fetched = <<status.downloadUri>>,
                                   !.stream = status.downloadUri]

\* a call of checkStatus whose fetch is answered with res
CheckStatusCall(res) ==
    /\ adapter' = [CheckStatus(res) EXCEPT !.op = "checkStatus", !.response = res]
    /\ UNCHANGED <<api, requests, jobs, proc, videos, progressReply, adminReply,
                   listReply>>

\* a call of downloadResult whose status fetch is answered with res and whose
\* download fetch ends as dl
DownloadResultCall(res, dl) ==
    /\ adapter' = [DownloadResult(res, dl) EXCEPT !.op = "downloadResult",
                                                  !.response = res]
    /\ UNCHANGED <<api, requests, jobs, proc, videos, progressReply, adminReply,
                   listReply>>

\* ------------------------------------- routes/generations.ts, GET /:id/progress
\* (mutant) the row is looked up by id alone
ProgressLookupById(rows, id, userId) == {r \in rows : r.id = id}

\* select {id, status, progress, videoId} where id = params.id and
\*   userId = request.user.id limit 1
ProgressLookup(rows, id, userId) ==
    {r \in rows : r.id = id /\ r.userId = userId}

ProgressBody(r) ==
    [id |-> r.id, status |-> r.status, progress |-> r.progress, videoId |-> r.videoId]

\* the ids a client may ask for: the ids of the handlers' rows and one more
RequestIds == Handlers \cup {NumHandlers + 1}

\* the handler for an authenticated user u: the row, 404, or 500 when the
\* select rejects
GetProgress(u, id) ==
    /\ \/ LET found == ProgressLookup(requests, id, u)
          IN  progressReply' =
                 IF found = {}
                 THEN [NoProgressReply EXCEPT !.user = u, !.id = id, !.status = 404]
                 ELSE [user |-> u, id |-> id, status |-> 200,
                       body |-> ProgressBody(CHOOSE r \in found : TRUE)]
       \/ progressReply' =
             [NoProgressReply EXCEPT !.user = u, !.id = id, !.status = 500]
    /\ UNCHANGED <<api, requests, jobs, proc, videos, adminReply, listReply, adapter>>

\* ------------------------------------------------ routes/generations.ts, GET /
\* Strings of the query are sequences of one-character strings, so that
\* parseInt can be computed on them; a parameter is present or missing.
Missing == [present |-> FALSE, text |-> <<>>]
Param(t) == [present |-> TRUE, text |-> t]

Digits == {"0", "1", "2", "3", "4", "5", "6", "7", "8", "9"}
DigitValue(c) ==
    CASE c = "0" -> 0 [] c = "1" -> 1 [] c = "2" -> 2 [] c = "3" -> 3
      [] c = "4" -> 4 [] c = "5" -> 5 [] c = "6" -> 6 [] c = "7" -> 7
      [] c = "8" -> 8 [] c = "9" -> 9

\* StrWhiteSpaceChar of the strings the model feeds
WhiteSpace == {" "}

RECURSIVE TrimStart(_)
TrimStart(t) ==
    IF t # <<>> /\ Head(t) \in WhiteSpace THEN TrimStart(Tail(t)) ELSE t

\* the value of the longest prefix of decimal digits of t, read after acc;
\* n counts the digits read
RECURSIVE ReadDigits(_, _, _)
ReadDigits(t, acc, n) ==
    IF t # <<>> /\ Head(t) \in Digits
    THEN ReadDigits(Tail(t), 10 * acc + DigitValue(Head(t)), n + 1)
    ELSE [value |-> acc, digits |-> n]

\* parseInt(string, 10): leading white space is skipped, a sign is read, then
\* the longest prefix of digits; no digit gives NaN
ParseInt(t) ==
    LET s == TrimStart(t)
        neg == s # <<>> /\ Head(s) = "-"
        signed == s # <<>> /\ Head(s) \in {"-", "+"}
        r == ReadDigits(IF signed THEN Tail(s) ELSE s, 0, 0)
    IN  IF r.digits = 0 THEN [nan |-> TRUE, v |-> 0]
        ELSE [nan |-> FALSE, v |-> IF neg THEN 0 - r.value ELSE r.value]

\* query.x || 'd': the text of the parameter unless it is undefined or ''
TextOr(param, d) == IF param.present /\ param.text # <<>> THEN param.text ELSE d

\* n || d for a number n: d when n is NaN or 0
NumberOr(n, d) == IF n.nan \/ n.v = 0 THEN d ELSE n.v

\* const page = Math.max(1, parseInt(query.page || '1', 10) || 1)
ListPage(query) ==
    MathMax(1, NumberOr(ParseInt(TextOr(query.page, <<"1">>)), 1))

\* (mutant) the limit has no upper bound
ListLimitUncapped(query) ==
    MathMax(1, NumberOr(ParseInt(TextOr(query.limit, <<"2", "0">>)), 20))

\* const limit = Math.min(50, Math.max(1, parseInt(query.limit || '20', 10) || 20))
ListLimit(query) ==
    MathMin(50, MathMax(1, NumberOr(ParseInt(TextOr(query.limit, <<"2", "0">>)), 20)))

\* const offset = (page - 1) * limit
ListOffset(page, limit) == (page - 1) * limit

\* orderBy(desc(createdAt)): the rows of rs, latest first; ids are handed out in
\* the order of creation
RECURSIVE LatestFirst(_)
LatestFirst(rs) ==
    IF rs = {} THEN <<>>
    ELSE LET r == CHOOSE x \in rs : \A y \in rs : y.id <= x.id
         IN  <<r>> \o LatestFirst(rs \ {r})

\* select().from(generationRequests).where(eq(userId, request.user.id))
\*   .orderBy(desc(createdAt)).limit(limit).offset(offset)
ListSelect(rows, u, limit, offset) ==
    LET own == LatestFirst({r \in rows : r.userId = u})
    IN  SubSeq(own, offset + 1, MathMin(Len(own), offset + limit))

\* the handler for an authenticated user u and query q: {data, page, limit}, or
\* 500 when the select rejects
ListGenerations(u, q) ==
    /\ LET page == ListPage(q)
           limit == ListLimit(q)
       IN  \/ listReply' =
                 [user |-> u, query |-> q, status |-> 200, page |-> page,
                  limit |-> limit,
                  data |-> ListSelect(requests, u, limit, ListOffset(page, limit))]
           \/ listReply' = [NoListReply EXCEPT !.user = u, !.query = q,
                                               !.status = 500]
    /\ UNCHANGED <<api, requests, jobs, proc, videos, progressReply, adminReply,
                   adapter>>

\* ------------------------------------------------ routes/admin.ts, POST /moderation
ModerationActions == {"approve", "reject"}

\* moderationActionSchema: action: z.enum(['approve', 'reject'])
ModerationSafeParse(b) == b.action \in ModerationActions

\* the update of POST /moderation on the row with id videoId
ModerateRow(v, action) ==
    [v EXCEPT
       !.visibility = IF action = "approve" THEN VIDEO_VISIBILITY.PUBLIC
                      ELSE VIDEO_VISIBILITY.REJECTED,
       !.moderationStatus = IF action = "approve" THEN MODERATION_STATUS.APPROVED
                            ELSE MODERATION_STATUS.REJECTED]

\* the bodies an administrator sends: every video id, one unknown id, the two
\* actions and one that the schema rejects
ModerationBodies ==
    {[videoId |-> v, action |-> a] :
        v \in {x.id : x \in videos} \cup {"video-0"},
        a \in ModerationActions \cup {"delete"}}

\* requireAdmin, safeParse, the update ... returning, 404 when no row matched
Moderate(isAdmin, b) ==
    /\ IF ~isAdmin
       THEN /\ adminReply' = [status |-> 403, videoId |-> b.videoId, action |-> b.action]
            /\ UNCHANGED videos
       ELSE IF ~ModerationSafeParse(b)
       THEN /\ adminReply' = [status |-> 400, videoId |-> b.videoId, action |-> b.action]
            /\ UNCHANGED videos
       ELSE IF \A v \in videos : v.id # b.videoId
       THEN /\ adminReply' = [status |-> 404, videoId |-> b.videoId, action |-> b.action]
            /\ UNCHANGED videos
       ELSE /\ videos' = {IF v.id = b.videoId THEN ModerateRow(v, b.action) ELSE v
                             : v \in videos}
            /\ adminReply' = [status |-> 200, videoId |-> b.videoId, action |-> b.action]
    /\ UNCHANGED <<api, requests, jobs, proc, progressReply, listReply, adapter>>

\* ------------------------------------------------ routes/videos.ts, GET /:id
MaxViews == 1

\* a public, approved video is returned and its viewCount incremented
ViewVideo(id) ==
    /\ \E v \in videos :
          /\ v.id = id
          /\ v.visibility = VIDEO_VISIBILITY.PUBLIC
          /\ v.moderationStatus = MODERATION_STATUS.APPROVED
          /\ v.viewCount < MaxViews
          /\ videos' = (videos \ {v}) \cup {[v EXCEPT !.viewCount = @ + 1]}
    /\ UNCHANGED <<api, requests, jobs, proc, progressReply, adminReply, listReply, adapter>>


\* ------------------------------------------------------------ specifications
\* Concurrent handlers, each submitting one of ConcBodies or purchasing.
Next ==
    \E h \in Handlers :
        \/ Authenticate(h)
        \/ ParseBody(h, ConcBodies)
        \/ TxUpdate(h)
        \/ TxInsertLedger(h)
        \/ TxInsertRequest(h)
        \/ Enqueue(h)
        \/ MarkFailed(h)
        \/ SendCreated(h)
        \/ PurchaseParse(h)
        \/ PurchaseTxUpdate(h)
        \/ PurchaseTxInsert(h)

Spec == Init /\ [][Next]_vars


\* One request at a time, its body drawn from every combination of the inputs.
InitInputs == InitWith(InputBalances)

NextInputs ==
    \/ Authenticate(1)
    \/ ParseBody(1, Bodies)
    \/ TxUpdate(1)
    \/ TxInsertLedger(1)
    \/ TxInsertRequest(1)
    \/ Enqueue(1)
    \/ MarkFailed(1)
    \/ SendCreated(1)
    \/ PurchaseParse(1)
    \/ PurchaseTxUpdate(1)
    \/ PurchaseTxInsert(1)

SpecInputs == InitInputs /\ [][NextInputs]_vars


\* One submission and the worker on its job; the failed hook's write may be
\* rejected.
WorkerBodies ==
    {Body(1, "ai_generated", Undefined, 60, Undefined),
     Body(1000, "user_provided", "breathe in", 300, "private")}

WorkerBalances == {20}

InitWorker == InitWith(WorkerBalances)

Submission(h, B) ==
    \/ Authenticate(h)
    \/ ParseBody(h, B)
    \/ TxUpdate(h)
    \/ TxInsertLedger(h)
    \/ TxInsertRequest(h)
    \/ Enqueue(h)
    \/ MarkFailed(h)
    \/ SendCreated(h)

NextWorker ==
    \/ Submission(1, WorkerBodies)
    \/ Worker(1, BOOLEAN)

SpecWorker == InitWorker /\ [][NextWorker]_vars


\* The same with the hook's write succeeding, the worker and the hook scheduled
\* fairly: a job that can run is run, an attempt that can go on goes on.
NextLive ==
    \/ Submission(1, WorkerBodies)
    \/ Worker(1, {TRUE})

SpecLive == InitWorker /\ [][NextLive]_vars /\ WF_vars(Worker(1, {TRUE}))


\* A state the submission and two failed attempts lead to: handler 1 has been
\* answered 201 for one of WorkerBodies, both attempts of its job were rejected
\* at the load of the request, and the job waits for its last attempt. q is
\* what the queue holds.
LateState(q) ==
    \E u \in Users, b \in WorkerBodies :
       LET data == SafeParse(b).data
           cost == CreditsNeeded(data.durationSeconds, data.visibility)
       IN  /\ balance0 \in [Users -> WorkerBalances]
           /\ balance = [balance0 EXCEPT ![u] = @ - cost]
           /\ ledger = {[tx |-> 1, userId |-> u, amount |-> -cost,
                         type |-> CREDIT_TRANSACTION_TYPE.GENERATION_SPEND]}
           /\ requests = {[id |-> 1, tx |-> 1, userId |-> u,
                           status |-> GENERATION_STATUS.PENDING,
                           visualPromptLen |-> data.visualPromptLen,
                           scriptType |-> data.scriptType,
                           scriptContent |-> IF Truthy(data.scriptContent)
                                             THEN data.scriptContent ELSE Null,
                           durationSeconds |-> data.durationSeconds,
                           creditsCharged |-> cost, progress |-> 0,
                           videoId |-> Null]}
           /\ queue = q
           /\ rowLock = [x \in Users |-> None]
           /\ pc = [h \in Handlers |-> IF h = 1 THEN "done" ELSE "new"]
           /\ route = [h \in Handlers |-> IF h = 1 THEN "generations" ELSE ""]
           /\ reqUser = [h \in Handlers |->
                            IF h = 1 THEN [id |-> u, creditsBalance |-> balance0[u]]
                            ELSE NoUser]
           /\ body = [h \in Handlers |-> IF h = 1 THEN b ELSE Undefined]
           /\ creditsNeeded = [h \in Handlers |-> IF h = 1 THEN cost ELSE 0]
           /\ txBalance = [h \in Handlers |-> IF h = 1 THEN balance[u] ELSE 0]
           /\ result = [h \in Handlers |-> IF h = 1 THEN 1 ELSE None]
           /\ resp = [h \in Handlers |-> IF h = 1 THEN Reply(201, "", 0) ELSE NoReply]
           /\ jobs = [j \in Handlers |->
                         IF j = 1 THEN [NoJob EXCEPT !.attemptsMade = Attempts - 1]
                         ELSE NoJob]
           /\ proc = [j \in Handlers |->
                         IF j = 1 THEN [NoProc EXCEPT !.err = "error"]
                         ELSE NoProc]
           /\ videos = {}
           /\ progressReply = NoProgressReply
           /\ adminReply = NoAdminReply
           /\ listReply = NoListReply
           /\ adapter = NoAdapterCall

InitLate == LateState(EnqueueJob({}, 1))

\* The last attempt and clients polling GET /:id/progress.
NextRead ==
    \/ Worker(1, BOOLEAN)
    \/ \E u \in Users, id \in RequestIds : GetProgress(u, id)

SpecRead == InitLate /\ [][NextRead]_vars


\* The last attempt, the administrator moderating and visitors viewing videos.
NextModeration ==
    \/ Worker(1, BOOLEAN)
    \/ \E isAdmin \in BOOLEAN, b \in ModerationBodies : Moderate(isAdmin, b)
    \/ \E v \in videos : ViewVideo(v.id)

SpecModeration == InitLate /\ [][NextModeration]_vars


\* ================================================================== claims
RECURSIVE SumAmounts(_)
SumAmounts(rows) ==
    IF rows = {} THEN 0
    ELSE LET r == CHOOSE x \in rows : TRUE
         IN  r.amount + SumAmounts(rows \ {r})

RECURSIVE SumNeeded(_)
SumNeeded(hs) ==
    IF hs = {} THEN 0
    ELSE LET h == CHOOSE x \in hs : TRUE
         IN  creditsNeeded[h] + SumNeeded(hs \ {h})

LedgerOf(u) == {r \in ledger : r.userId = u}
SpendsOf(u) ==
    {r \in LedgerOf(u) : r.type = CREDIT_TRANSACTION_TYPE.GENERATION_SPEND}
SubmissionsOf(u) ==
    {h \in Handlers : route[h] = "generations" /\ reqUser[h].id = u}
AllDone == \A h \in Handlers : pc[h] = "done"
\* every request of u that got past authentication is a submission
OnlySubmits(u) ==
    \A h \in Handlers : reqUser[h].id = u => route[h] = "generations"
Answered201(u) == {h \in SubmissionsOf(u) : resp[h].status = 201}
\* the submissions whose transaction committed: answered 201, or 500 after a
\* failed queue.add
Committed(u) == {h \in SubmissionsOf(u) : result[h] # None}

\* C1 as stated: once all concurrent submissions of a user have finished, the
\* balance is the initial one minus the costs of the submissions answered 201,
\* the generation_spend amounts sum to minus that, and no committed balance is
\* negative.
C1_AsStated ==
    /\ \A u \in Users : balance[u] >= 0
    /\ \A u \in Users :
         (AllDone /\ OnlySubmits(u)) =>
            /\ balance[u] = balance0[u] - SumNeeded(Answered201(u))
            /\ SumAmounts(SpendsOf(u)) = -SumNeeded(Answered201(u))

\* C1 amended: the same with the sum taken over the submissions whose
\* transaction committed (answered 201, or 500 when queue.add failed after the
\* commit).
C1_CreditAtomicity ==
    /\ \A u \in Users : balance[u] >= 0
    /\ \A u \in Users :
         (AllDone /\ OnlySubmits(u)) =>
            /\ balance[u] = balance0[u] - SumNeeded(Committed(u))
            /\ SumAmounts(SpendsOf(u)) = -SumNeeded(Committed(u))

\* C1 witness: two submissions of one user have finished, each affordable from
\* the initial balance alone and both authenticated before either committed;
\* one was answered 201 and the other 402.
C1_Witness ==
    /\ AllDone
    /\ \E u \in Users : \E h1, h2 \in SubmissionsOf(u) :
         /\ OnlySubmits(u)
         /\ resp[h1].status = 201
         /\ resp[h2].status = 402
         /\ reqUser[h1].creditsBalance = balance0[u]
         /\ reqUser[h2].creditsBalance = balance0[u]
         /\ creditsNeeded[h2] <= balance0[u]


\* C2: the guarded decrement decides on the committed balance it finds, not on
\* request.user.creditsBalance: it answers 402 {Insufficient credits, required}
\* exactly when that balance is below creditsNeeded, otherwise it takes exactly
\* creditsNeeded, and the commit lowers the committed balance by that amount.
C2_DecisionAtDecrement ==
    [][\A h \in Handlers :
         LET u == reqUser[h].id
             n == creditsNeeded[h]
         IN  /\ (pc[h] = "txUpdate" /\ pc'[h] # "txUpdate") =>
                  /\ (resp'[h] = Reply(402, "Insufficient credits", n))
                        <=> (balance[u] < n)
                  /\ (balance[u] < n) => pc'[h] = "done"
                  /\ (balance[u] >= n) =>
                        /\ pc'[h] = "txLedger"
                        /\ txBalance'[h] = balance[u] - n
             /\ (pc[h] = "txRequest" /\ pc'[h] = "enqueue") =>
                  balance'[u] = balance[u] - n
    ]_vars

\* C2 witness: a submission was answered 402 although the balance authenticate
\* had read covered its cost.
C2_Witness ==
    \E h \in Handlers :
        /\ resp[h].status = 402
        /\ reqUser[h].creditsBalance >= creditsNeeded[h]

\* C3: in every committed state the change of each user's balance since the
\* start equals the sum of the amounts of the ledger rows appended for that user.
C3_LedgerMatchesBalance ==
    \A u \in Users : balance[u] - balance0[u] = SumAmounts(LedgerOf(u))

\* C3 witness: a user has a committed spend and a committed purchase, and the
\* purchase updated a balance that differed from the one its authenticate read.
C3_Witness ==
    \E u \in Users : \E hs, hp \in Handlers :
        /\ SpendRow(hs) \in LedgerOf(u)
        /\ route[hs] = "generations"
        /\ PurchaseRow(hp) \in LedgerOf(u)
        /\ route[hp] = "credits/purchase"
        /\ txBalance[hp] - creditsNeeded[hp] # reqUser[hp].creditsBalance


IsSpend(l) == l.type = CREDIT_TRANSACTION_TYPE.GENERATION_SPEND
\* the spend rows written by the transaction that wrote request row r
SpendRowsOf(r) ==
    {l \in ledger : IsSpend(l) /\ l.tx = r.tx /\ l.userId = r.userId}

\* C4: every committed request row with creditsCharged = c has exactly one
\* generation_spend row of its user from the same transaction, of amount -c;
\* the commit lowers the balance by c and writes both rows together; no
\* generation_spend row is without its request row.
C4_OneSpendPerRequest ==
    /\ [](/\ \A r \in requests :
               /\ Cardinality(SpendRowsOf(r)) = 1
               /\ \A l \in SpendRowsOf(r) : l.amount = -r.creditsCharged
          /\ \A l \in ledger :
               IsSpend(l) => \E r \in requests : r.tx = l.tx /\ r.userId = l.userId)
    /\ [][\A h \in Handlers :
            (pc[h] = "txRequest" /\ pc'[h] = "enqueue") =>
               \E r \in requests' \ requests : \E l \in ledger' \ ledger :
                  /\ requests' = requests \cup {r}
                  /\ ledger' = ledger \cup {l}
                  /\ r.tx = h /\ l.tx = h /\ IsSpend(l)
                  /\ l.amount = -r.creditsCharged
                  /\ balance[reqUser[h].id] - balance'[reqUser[h].id]
                        = r.creditsCharged
       ]_vars

\* C4 witness: two requests of one user are committed, one of them private
\* (surcharge included in creditsCharged), with the balance lowered by both.
C4_Witness ==
    \E r1, r2 \in requests :
        /\ r1.id # r2.id
        /\ r1.userId = r2.userId
        /\ body[r1.tx].visibility = "private"
        /\ ~ \E h \in Handlers : route[h] = "credits/purchase" /\ resp[h].status = 200
        /\ balance[r1.userId]
             = balance0[r1.userId] - r1.creditsCharged - r2.creditsCharged

\* what handler k has added to its user's balance
Delta(k) ==
    IF route[k] = "generations" /\ result[k] # None THEN -creditsNeeded[k]
    ELSE IF route[k] = "credits/purchase" /\ resp[k].status = 200
         THEN creditsNeeded[k]
         ELSE 0

RECURSIVE SumDelta(_)
SumDelta(hs) ==
    IF hs = {} THEN 0
    ELSE LET k == CHOOSE x \in hs : TRUE
         IN  Delta(k) + SumDelta(hs \ {k})

\* handler h has left no trace: no row and no job of its own, no row lock, and
\* its user's balance is explained by the other handlers alone
NoEffect(h) ==
    /\ \A l \in ledger : l.tx # h
    /\ \A r \in requests : r.tx # h
    /\ \A j \in queue : j.id # NewRequestId(h)
                        /\ j.data.generationRequestId # NewRequestId(h)
    /\ \A u \in Users : rowLock[u] # h
    /\ \A u \in Users :
         reqUser[h].id = u =>
            balance[u] = balance0[u]
               + SumDelta({k \in Handlers \ {h} : reqUser[k].id = u})

\* C5: a submission answered 402 has changed nothing: the step that rejects it
\* leaves balance, ledger, requests and queue as they are, and afterwards the
\* handler has no row, no job, and no part in its user's balance.
C5_RejectionHasNoEffect ==
    /\ [](\A h \in Handlers : resp[h].status = 402 => NoEffect(h))
    /\ [][\A h \in Handlers :
            (resp[h].status # 402 /\ resp'[h].status = 402) =>
               UNCHANGED <<balance, ledger, requests, queue>>
       ]_vars

\* C5 witness: a submission was answered 402 after another request of the same
\* user had committed.
C5_Witness ==
    \E h, k \in Handlers :
        /\ h # k
        /\ resp[h].status = 402
        /\ reqUser[k].id = reqUser[h].id
        /\ Delta(k) # 0


\* the number a durationSeconds input stands for
DurationValue(b) ==
    IF b.durationSeconds.t = "string"
    THEN Number(b.durationSeconds.v)
    ELSE b.durationSeconds.v

\* the rejections C6 lists
C6_Listed(b) ==
    \/ DurationValue(b) \notin {60, 120, 180, 300}
    \/ b.visualPromptLen < 1
    \/ b.visualPromptLen > 1000
    \/ b.scriptType \notin {"ai_generated", "user_provided", "template"}
    \/ b.visibility \notin {Undefined, "public", "private"}
    \/ /\ b.scriptType \in {"user_provided", "template"}
       /\ b.scriptContent \in {Undefined, ""}

Parsed(h) ==
    /\ route[h] = "generations"
    /\ pc[h] \notin {"new", "handler"}
    /\ resp[h].status # 401

\* C6: a body with one of the listed defects is answered 400 by the step that
\* parses it, without a transaction being opened, and leaves no trace in
\* balance, ledger, requests or queue.
C6_InvalidBodyHasNoEffect ==
    /\ [](\A h \in Handlers :
            (Parsed(h) /\ C6_Listed(body[h])) =>
               /\ pc[h] = "done"
               /\ resp[h].status = 400
               /\ NoEffect(h))
    /\ [][\A h \in Handlers :
            (pc[h] = "handler" /\ Parsed(h)' /\ C6_Listed(body'[h])) =>
               /\ pc'[h] = "done"
               /\ UNCHANGED <<balance, ledger, requests, queue, rowLock>>
       ]_vars

\* C6 witness: a template submission with an empty scriptContent, valid in
\* every other field, was answered 400.
C6_Witness ==
    \E h \in Handlers :
        /\ Parsed(h)
        /\ resp[h].status = 400
        /\ body[h].scriptType = "template"
        /\ body[h].scriptContent = ""
        /\ DurationValue(body[h]) = 300
        /\ body[h].visibility = "private"
        /\ body[h].visualPromptLen = 1000
        /\ balance0[reqUser[h].id] >= 18

\* the pricing table of C7
C7_Table(d, v) ==
    (CASE d = 60 -> 5 [] d = 120 -> 8 [] d = 180 -> 12 [] d = 300 -> 15)
    + (IF v = "private" THEN 3 ELSE 0)

\* C7: for every accepted submission creditsCharged, the ledger amount (negated)
\* and the amount the commit takes from the balance equal the pricing table for
\* its durationSeconds and visibility.
C7_PricingTable ==
    /\ [](\A r \in requests :
            LET price == C7_Table(DurationValue(body[r.tx]), body[r.tx].visibility)
            IN  /\ r.creditsCharged = price
                /\ \A l \in SpendRowsOf(r) : l.amount = -price
                /\ SpendRowsOf(r) # {})
    /\ [][\A h \in Handlers :
            (pc[h] = "txRequest" /\ pc'[h] = "enqueue") =>
               balance[reqUser[h].id] - balance'[reqUser[h].id]
                  = C7_Table(DurationValue(body[h]), body[h].visibility)
       ]_vars

\* C7 witness: a request is committed for each of the twelve combinations is
\* not one state; this one is the dearest: 300 s given as a string, private,
\* charged 18 and taken from a balance of 20.
C7_Witness ==
    \E r \in requests :
        /\ r.creditsCharged = 18
        /\ body[r.tx].durationSeconds = [t |-> "string", v |-> "300"]
        /\ body[r.tx].visibility = "private"
        /\ balance[r.userId] = 2


\* the handlers of POST /api/generations that reached the 201 reply
Accepted(h) ==
    /\ route[h] = "generations"
    /\ \/ pc[h] = "reply"
       \/ pc[h] = "done" /\ resp[h].status = 201

\* the message C8 describes for request id
C8_Message(id) ==
    [id |-> id, name |-> "generate", data |-> [generationRequestId |-> id]]

\* C8: a submission that is about to answer, or has answered, 201 has its one
\* message in the queue, with payload {generationRequestId: id} and job id equal
\* to the id of the row its transaction committed; the queue holds nothing else,
\* it grows by exactly one message and only in the enqueue step of a committed
\* submission, and a step that answers 400 or 402 leaves it alone.
C8_EnqueueBefore201 ==
    /\ [](/\ \A h \in Handlers :
               Accepted(h) =>
                  /\ \E r \in requests : r.id = result[h] /\ r.tx = h
                  /\ C8_Message(result[h]) \in queue
                  /\ Cardinality({j \in queue : j.id = result[h]}) = 1
          /\ queue = {C8_Message(result[h]) : h \in {k \in Handlers : Accepted(k)}}
          /\ \A h \in Handlers :
               (pc[h] = "done" /\ resp[h].status \in {400, 402}) =>
                  /\ result[h] = None
                  /\ \A j \in queue : j.id # NewRequestId(h))
    /\ [][/\ queue' # queue =>
               \E h \in Handlers :
                  /\ pc[h] = "enqueue"
                  /\ pc'[h] = "reply"
                  /\ C8_Message(result[h]) \notin queue
                  /\ queue' = queue \cup {C8_Message(result[h])}
          /\ \A h \in Handlers :
               (pc[h] # "done" /\ pc'[h] = "done" /\ resp'[h].status \in {400, 402})
                  => queue' = queue
          /\ \A h \in Handlers :
               (pc'[h] = "done" /\ resp'[h].status = 201 /\ pc[h] # "done")
                  => C8_Message(result[h]) \in queue
       ]_vars

\* C8 witness: one submission answered 201 with its message queued, another
\* answered 402, and the queue holds that one message.
C8_Witness ==
    \E h1, h2 \in Handlers :
        /\ route[h1] = "generations" /\ route[h2] = "generations"
        /\ pc[h1] = "done" /\ resp[h1].status = 201
        /\ pc[h2] = "done" /\ resp[h2].status = 402
        /\ queue = {C8_Message(result[h1])}

\* the submissions whose transaction committed and whose enqueue failed
EnqueueFailed(h) ==
    /\ route[h] = "generations"
    /\ pc[h] = "done"
    /\ resp[h].status = 500
    /\ result[h] # None

\* C10: after a commit followed by a failed enqueue the answer is
\* 500 {error: 'Internal server error'}; the catch block changes nothing but the
\* status of the request it committed, which becomes failed, or stays pending
\* when that update fails; the deduction and the spend row stay.
C10_EnqueueFailure ==
    /\ [](\A h \in Handlers :
            EnqueueFailed(h) =>
               /\ resp[h] = Reply(500, "Internal server error", 0)
               /\ SpendRow(h) \in ledger
               /\ \E r \in requests :
                     /\ r.id = result[h]
                     /\ r.tx = h
                     /\ r.creditsCharged = -SpendRow(h).amount
                     /\ r.status \in {GENERATION_STATUS.FAILED, GENERATION_STATUS.PENDING}
               /\ \A j \in queue : j.id # result[h])
    /\ [][\A h \in Handlers :
            /\ (pc[h] = "enqueue" /\ pc'[h] = "markFailed") =>
                  UNCHANGED <<balance, ledger, requests, queue, resp>>
            /\ (pc[h] = "markFailed" /\ pc'[h] = "done") =>
                  /\ resp'[h] = Reply(500, "Internal server error", 0)
                  /\ UNCHANGED <<balance, ledger, queue>>
                  /\ \E r \in requests :
                        /\ r.id = result[h]
                        /\ r.status = GENERATION_STATUS.PENDING
                        /\ \/ requests' = requests
                           \/ requests' = (requests \ {r}) \cup
                                 {[r EXCEPT !.status = GENERATION_STATUS.FAILED]}
       ]_vars

\* C10 witness: two submissions committed and failed to enqueue; one request
\* was marked failed, the other one stayed pending; both were answered 500 and
\* both deductions are in the balance.
C10_Witness ==
    \E h1, h2 \in Handlers :
        /\ EnqueueFailed(h1) /\ EnqueueFailed(h2)
        /\ reqUser[h1].id = reqUser[h2].id
        /\ \E r1, r2 \in requests :
              /\ r1.tx = h1 /\ r1.status = GENERATION_STATUS.FAILED
              /\ r2.tx = h2 /\ r2.status = GENERATION_STATUS.PENDING
              /\ balance[r1.userId] = balance0[r1.userId]
                                        - r1.creditsCharged - r2.creditsCharged


\* ---------------------------------------------------------- C11 .. C20
HasRow(j) == \E r \in requests : r.id = j
Row(j) == CHOOSE r \in requests : r.id = j
HasRowNext(j) == \E r \in requests' : r.id = j
RowNext(j) == CHOOSE r \in requests' : r.id = j

\* C11: a reply of GET /:id/progress carries {id, status, progress, videoId} of
\* a row only when that row has the id asked for and belongs to the user who
\* asked; when no such row exists the reply is 404 with no row data (500 when
\* the select was rejected), whatever rows other users own.
C11_ProgressOwnership ==
    [][progressReply' # progressReply =>
          LET p == progressReply'
              own == {r \in requests : r.id = p.id /\ r.userId = p.user}
          IN  /\ p.status \in {200, 404, 500}
              /\ p.status = 200 =>
                    \E r \in own : p.body = [id |-> r.id, status |-> r.status,
                                             progress |-> r.progress,
                                             videoId |-> r.videoId]
              /\ own = {} => /\ p.status \in {404, 500}
                             /\ p.body = NoProgressReply.body
              /\ p.status = 404 => own = {}
      ]_vars

\* C11 witness: a user was answered 404 for the id of a request that exists,
\* belongs to somebody else and is being worked on; the owner would get 200.
C11_Witness ==
    /\ progressReply.status = 404
    /\ \E r \in requests :
          /\ r.id = progressReply.id
          /\ r.userId # progressReply.user
          /\ r.status = GENERATION_STATUS.GENERATING_VIDEO

\* C12: the persisted progress of a request never decreases, retries included,
\* and progress is 100 exactly when the status is completed.
C12_ProgressMonotone ==
    /\ [](\A r \in requests :
             r.progress = 100 <=> r.status = GENERATION_STATUS.COMPLETED)
    /\ [][\A j \in Handlers :
             (HasRow(j) /\ HasRowNext(j)) => RowNext(j).progress >= Row(j).progress
       ]_vars

\* the place of a status in the order of C13
Rank(status) ==
    CASE status = GENERATION_STATUS.PENDING -> 0
      [] status = GENERATION_STATUS.GENERATING_SCRIPT -> 1
      [] status = GENERATION_STATUS.GENERATING_VOICE -> 2
      [] status = GENERATION_STATUS.GENERATING_VIDEO -> 3
      [] status = GENERATION_STATUS.COMPOSITING -> 4
      [] status = GENERATION_STATUS.COMPLETED -> 5
      [] status = GENERATION_STATUS.FAILED -> 6

\* C13: the persisted status of a request only moves forward along pending,
\* generating_script, generating_voice, generating_video, compositing,
\* completed, with failed as a last state; no write takes it to an earlier one.
C13_StatusForward ==
    [][\A j \in Handlers :
          (HasRow(j) /\ HasRowNext(j)) =>
             /\ Rank(RowNext(j).status) >= Rank(Row(j).status)
             /\ Row(j).status = GENERATION_STATUS.FAILED =>
                   RowNext(j).status = GENERATION_STATUS.FAILED
      ]_vars

\* C14: a completed request has a videoId and a failed request has none.
C14_VideoIdMatchesStatus ==
    \A r \in requests :
       /\ r.status = GENERATION_STATUS.COMPLETED => r.videoId # Null
       /\ r.status = GENERATION_STATUS.FAILED => r.videoId = Null

\* C15: a write that makes a request failed is either the fallback of the
\* submission handler or the hook's update for a job whose attemptsMade has
\* reached its attempts, made while processJob does not run; an attempt that
\* fails with attempts remaining changes no request and leaves no marking behind.
C15_FailedOnlyWhenExhausted ==
    [][\A j \in Handlers :
          /\ ( /\ HasRow(j) /\ HasRowNext(j)
               /\ Row(j).status # GENERATION_STATUS.FAILED
               /\ RowNext(j).status = GENERATION_STATUS.FAILED ) =>
                  \/ pc[j] = "markFailed" /\ pc'[j] = "done"
                  \/ /\ jobs[j].attemptsMade >= Attempts
                     /\ jobs[j].state = "failed"
                     /\ proc' = proc
          /\ ( /\ jobs'[j].attemptsMade = jobs[j].attemptsMade + 1
               /\ jobs'[j].attemptsMade < Attempts ) =>
                  /\ requests' = requests
                  /\ jobs'[j].failedEvents = {}
                  /\ jobs'[j].state = "wait"
      ]_vars

\* C15 witness: two attempts have failed in the poll loop, the job waits for
\* its third, and the request still has the status the pipeline wrote last.
C15_Witness ==
    \E j \in Handlers :
        /\ jobs[j].attemptsMade = 2
        /\ jobs[j].timeouts = 2
        /\ jobs[j].state = "wait"
        /\ jobs[j].failedEvents = {}
        /\ HasRow(j)
        /\ Row(j).status = GENERATION_STATUS.GENERATING_VIDEO
        /\ Row(j).progress = 40

\* the request of job j as C16 leaves it
C16_Ended(j) ==
    /\ HasRow(j)
    /\ Row(j).status = GENERATION_STATUS.FAILED
    /\ Row(j).videoId = Null
    /\ balance[Row(j).userId] = balance0[Row(j).userId] - Row(j).creditsCharged
    /\ LedgerOf(Row(j).userId) = SpendRowsOf(Row(j))

\* C16: an attempt ends with the timeout only after exactly VEO_MAX_POLLS polls
\* that all reported processing, the queue then retries while attempts remain,
\* and once all attempts of a job have timed out the request becomes failed and
\* stays so, with no videoId, no video, and the balance and the ledger as the
\* submission left them.
C16_ProviderTimeout ==
    /\ [][\A j \in Handlers :
             jobs'[j].timeouts = jobs[j].timeouts + 1 =>
                /\ proc[j].polls = VEO_MAX_POLLS
                /\ proc[j].videoStatus = "processing"
                /\ jobs'[j].attemptsMade = jobs[j].attemptsMade + 1
                /\ jobs'[j].state = IF jobs'[j].attemptsMade < Attempts
                                    THEN "wait" ELSE "failed"
                /\ UNCHANGED <<requests, balance, ledger, videos>>
       ]_vars
    /\ [][\A j \in Handlers :
             ( /\ At(j, "loop") /\ proc[j].videoStatus = "processing"
               /\ At(j, "loop")' /\ proc[j] # proc'[j] ) =>
                  /\ proc[j].polls < VEO_MAX_POLLS
                  /\ proc'[j].polls = proc[j].polls + 1
       ]_vars
    /\ [](\A j \in Handlers :
             jobs[j].timeouts = Attempts =>
                /\ jobs[j].state = "failed"
                /\ videos = {}
                /\ Row(j).videoId = Null
                /\ balance[Row(j).userId]
                      = balance0[Row(j).userId] - Row(j).creditsCharged
                /\ LedgerOf(Row(j).userId) = SpendRowsOf(Row(j)))
    /\ \A j \in Handlers :
          [](jobs[j].timeouts = Attempts => <>[]C16_Ended(j))

\* C16 witness: all three attempts timed out, the hook has run, and the request
\* is failed with the credits spent.
C16_Witness ==
    \E j \in Handlers :
        /\ jobs[j].timeouts = Attempts
        /\ jobs[j].attemptsMade = 3
        /\ jobs[j].failedEvents = {}
        /\ C16_Ended(j)
        /\ Row(j).creditsCharged = 18

Queued(j) == \E q \in queue : q.id = j

Terminal(j) ==
    /\ HasRow(j)
    /\ Row(j).status \in {GENERATION_STATUS.COMPLETED, GENERATION_STATUS.FAILED}

\* C17: a request whose job was added to the queue ends completed or failed and
\* stays there; the job never makes more than 3 attempts.
C17_EveryJobEnds ==
    /\ \A j \in Handlers : [](Queued(j) => <>[]Terminal(j))
    /\ [](\A j \in Handlers : jobs[j].attemptsMade <= 3)
    /\ [][\A j \in Handlers :
             jobs[j].state \in {"completed", "failed"} =>
                /\ jobs'[j].state = jobs[j].state
                /\ jobs'[j].attemptsMade = jobs[j].attemptsMade
       ]_vars

\* C17 witness: a job completed on its last attempt after two failed ones, and
\* its request is completed.
C17_Witness ==
    \E j \in Handlers :
        /\ jobs[j].state = "completed"
        /\ jobs[j].attemptsMade = 2
        /\ Terminal(j)
        /\ Row(j).status = GENERATION_STATUS.COMPLETED

\* C18: the hook's marking changes the status of the request and nothing else;
\* progress keeps the value the pipeline persisted last.
C18_FailedFreezesProgress ==
    [][\A j \in Handlers :
          ( /\ jobs'[j].failedEvents # jobs[j].failedEvents
            /\ jobs'[j].failedEvents = {}
            /\ requests' # requests ) =>
               /\ RowNext(j).progress = Row(j).progress
               /\ RowNext(j) = [Row(j) EXCEPT !.status = GENERATION_STATUS.FAILED]
      ]_vars

\* C19: an attempt in which compose was called does not end before the scratch
\* directory has been removed.
C19_CleanupAlways ==
    [][\A j \in Handlers :
          (Active(j) /\ ~Active(j)' /\ proc'[j].composeCalled) =>
             proc'[j].tempDir = "removed"
      ]_vars

\* the part of C19 that concerns the attempts in which compose returned
C19_CleanupAfterCompose ==
    [][\A j \in Handlers :
          (Active(j) /\ ~Active(j)' /\ proc[j].pc \in TryBlock \cup {"cleanup"}) =>
             proc'[j].tempDir = "removed"
      ]_vars

\* C20: a video row appears with visibility pending_review and moderationStatus
\* pending, whatever the submission asked for, and these two fields of a row
\* change only in a 200 reply of POST /moderation for that row, to the values
\* of its action.
C20_VideoStartsPending ==
    [][/\ \A v \in videos' :
             (\A w \in videos : w.id # v.id) =>
                /\ v.visibility = VIDEO_VISIBILITY.PENDING_REVIEW
                /\ v.moderationStatus = MODERATION_STATUS.PENDING
       /\ \A w \in videos : \A v \in videos' :
             ( /\ v.id = w.id
               /\ \/ v.visibility # w.visibility
                  \/ v.moderationStatus # w.moderationStatus ) =>
                /\ adminReply'.status = 200
                /\ adminReply'.videoId = w.id
                /\ v = ModerateRow(w, adminReply'.action)
                /\ UNCHANGED <<requests, jobs, proc>>
       /\ \A w \in videos : \E v \in videos' : v.id = w.id
      ]_vars

\* C20 witness: the video of a submission that asked for private was inserted
\* as pending, approved by the administrator and viewed once.
C20_Witness ==
    \E v \in videos :
        /\ v.visibility = VIDEO_VISIBILITY.PUBLIC
        /\ v.moderationStatus = MODERATION_STATUS.APPROVED
        /\ v.viewCount = 1
        /\ body[1].visibility = "private"
        /\ \E r \in requests : r.videoId = v.id
                                 /\ r.status = GENERATION_STATUS.COMPLETED


\* A job whose request does not exist: the queue holds a second job, named
\* OrphanJob, beside the job of InitLate, and no row of generation_requests has
\* its id (the case of the worker test 'throws when generation request not
\* found').
OrphanJob == NumHandlers

InitOrphan == LateState(EnqueueJob(EnqueueJob({}, 1), OrphanJob))

NextOrphan ==
    \/ Worker(1, BOOLEAN)
    \/ Worker(OrphanJob, BOOLEAN)

SpecOrphan == InitOrphan /\ [][NextOrphan]_vars

\* A second submission after the one of InitLate, and clients listing their
\* requests. The query strings are
\* missing, empty, plain numbers inside and outside the bounds, signed, and
\* not numbers; pages and limits are varied one at a time and in a few pairs
\* that page through the rows.
ListBodies == {Body(1, "ai_generated", Undefined, 60, Undefined)}

PageTexts ==
    {<<>>, <<"0">>, <<"1">>, <<"2">>, <<"3">>, <<"-", "1">>, <<"a", "b", "c">>,
     <<"2", "a", "b", "c">>, <<" ", "2">>, <<"+", "2">>, <<"1", ".", "9">>}

LimitTexts ==
    {<<>>, <<"0">>, <<"1">>, <<"2">>, <<"2", "0">>, <<"5", "0">>, <<"5", "1">>,
     <<"1", "0", "0">>, <<"-", "5">>, <<"a", "b", "c">>,
     <<"1", "0", "a", "b", "c">>, <<"2", ".", "5">>, <<"0", "0">>}

Queries ==
    {[page |-> Missing, limit |-> Missing]}
    \cup {[page |-> Param(t), limit |-> Missing] : t \in PageTexts}
    \cup {[page |-> Missing, limit |-> Param(t)] : t \in LimitTexts}
    \cup {[page |-> Param(p), limit |-> Param(<<"1">>)] :
             p \in {<<"1">>, <<"2">>, <<"3">>, <<"0">>}}
    \cup {[page |-> Param(<<"2">>), limit |-> Param(l)] :
             l \in {<<"0">>, <<"5", "0">>, <<"a", "b", "c">>}}

NextList ==
    \/ Submission(2, ListBodies)
    \/ \E u \in Users, q \in Queries : ListGenerations(u, q)

SpecList == InitLate /\ [][NextList]_vars

\* One submission with a script of each kind, and the worker: a template and
\* a user_provided request with their text, an ai_generated request that
\* brings a text of its own, and a user_provided body without text, which the
\* schema rejects.
ScriptBodies ==
    {Body(1, "template", "breathe in", 60, Undefined),
     Body(1, "user_provided", "breathe in", 60, Undefined),
     Body(1, "ai_generated", "my own words", 60, Undefined),
     Body(1, "user_provided", "", 60, Undefined)}

NextScripts ==
    \/ Submission(1, ScriptBodies)
    \/ Worker(1, BOOLEAN)

SpecScripts == InitWorker /\ [][NextScripts]_vars

\* The adapter called with every answer of the provider.
NextAdapter ==
    \/ \E res \in VeoResponses : CheckStatusCall(res)
    \/ \E res \in VeoResponses, dl \in DownloadFetches : DownloadResultCall(res, dl)

SpecAdapter == InitWorker /\ [][NextAdapter]_vars

\* ----------------------------------------------------------------------------
\* C21 .. C30
\* ----------------------------------------------------------------------------

\* the video rows the attempts of job j inserted
VideosOf(j) == {v \in videos : v.storageKey = j}

\* C21: once no attempt of a job is running, the job has inserted at most one
\* video row, and every video row belongs to a request that is completed and
\* whose videoId is the id of that row.
C21_OneVideoPerRequest ==
    \A j \in Handlers :
        ~Active(j) =>
           /\ Cardinality(VideosOf(j)) <= 1
           /\ \A v \in VideosOf(j) :
                 /\ HasRow(j)
                 /\ Row(j).status = GENERATION_STATUS.COMPLETED
                 /\ Row(j).videoId = v.id

\* the attempt of job j ends in this step because the request was not found
C23_NotFoundEnds(j) ==
    /\ At(j, "load")
    /\ ~HasRow(j)
    /\ jobs'[j].attemptsMade = jobs[j].attemptsMade + 1
    /\ proc'[j].err = "not found"

\* the part of C23 before the throw: the attempt that does not find its request
\* ends at the load, with no row, video or credit changed
C23_NothingBeforeThrow ==
    [][\A j \in Handlers :
          (At(j, "load") /\ ~HasRow(j) /\ proc'[j] # proc[j]) =>
             /\ jobs'[j].attemptsMade = jobs[j].attemptsMade + 1
             /\ proc'[j].pc = "idle"
             /\ UNCHANGED <<requests, videos, balance, ledger>>
      ]_vars

\* C23: an attempt that does not find the request of its job ends at the load
\* of the request, before any provider call or write, and the job is failed
\* for good by that attempt: it is not put back to wait for a retry.
C23_NotFoundIsTerminal ==
    [][\A j \in Handlers :
          C23_NotFoundEnds(j) =>
             /\ jobs'[j].state = "failed"
             /\ UNCHANGED <<requests, videos, balance, ledger>>
      ]_vars

\* the transaction of a submission, or of a credit purchase, commits in this step
C24_Commit ==
    \E h \in Handlers :
        \/ pc[h] = "txRequest" /\ pc'[h] = "enqueue"
        \/ pc[h] = "purchaseLedger" /\ pc'[h] = "done" /\ resp'[h].status = 200

C25_Fixed(r) ==
    <<r.userId, r.visualPromptLen, r.scriptType, r.durationSeconds,
      r.creditsCharged, r.tx>>

\* C25: a request row keeps for ever the creditsCharged, userId, visualPrompt,
\* scriptType and durationSeconds it was inserted with: every step leaves these
\* columns of every existing row as they are, and no row is removed.
C25_ChargeAndInputsImmutable ==
    [][\A r \in requests :
          \E n \in requests' : n.id = r.id /\ C25_Fixed(n) = C25_Fixed(r)
      ]_vars

\* C25 witness: a request charged 18 credits was completed by a retry, after
\* the writes of more than one attempt, and still carries the charge and the
\* inputs of its submission.
C25_Witness ==
    \E j \in Handlers :
        /\ HasRow(j)
        /\ jobs[j].state = "completed"
        /\ jobs[j].attemptsMade >= 1
        /\ Row(j).status = GENERATION_STATUS.COMPLETED
        /\ Row(j).creditsCharged = 18
        /\ Row(j).durationSeconds = 300
        /\ Row(j).scriptType = "user_provided"
        /\ Row(j).visualPromptLen = 1000

\* the integers that the query texts written as plain decimal numbers denote
C26_Numbers ==
    <<"0">> :> 0 @@ <<"0", "0">> :> 0 @@ <<"1">> :> 1 @@ <<"2">> :> 2
    @@ <<"3">> :> 3 @@ <<"2", "0">> :> 20 @@ <<"5", "0">> :> 50
    @@ <<"5", "1">> :> 51 @@ <<"1", "0", "0">> :> 100 @@ <<"-", "1">> :> 0 - 1
    @@ <<"-", "5">> :> 0 - 5

\* the parameter is missing, or its text holds no digit at all
C26_NoNumber(param) ==
    ~param.present \/ \A i \in 1..Len(param.text) : param.text[i] \notin Digits

C26_IsNumber(param) == param.present /\ param.text \in DOMAIN C26_Numbers

C26_Clamp(n, lo, hi) == IF n < lo THEN lo ELSE IF n > hi THEN hi ELSE n

\* the rows of user u, and the number of them created no earlier than r
C26_Own(u) == {r \in requests : r.userId = u}
C26_Rank(r) == Cardinality({x \in C26_Own(r.userId) : x.id >= r.id})

\* the reply holds rows of the caller only, page >= 1, limit in 1..50, and the
\* rows are those ranked offset + 1 .. offset + limit, latest first, for
\* offset = (page - 1) * limit
C26_Page(reply) ==
    LET offset == (reply.page - 1) * reply.limit
        data == reply.data
    IN  /\ reply.page >= 1
        /\ reply.limit \in 1..50
        /\ \A i \in 1..Len(data) :
              /\ data[i].userId = reply.user
              /\ data[i] \in requests
              /\ C26_Rank(data[i]) = offset + i
        /\ Len(data) = C26_Clamp(Cardinality(C26_Own(reply.user)) - offset,
                                 0, reply.limit)

\* the page and the limit of an answer are those of the stated clamps
C26_Clamped(reply) ==
    LET q == reply.query
    IN  /\ C26_NoNumber(q.page) => reply.page = 1
        /\ C26_NoNumber(q.limit) => reply.limit = 20
        /\ C26_IsNumber(q.page) =>
              reply.page = IF C26_Numbers[q.page.text] < 1 THEN 1
                           ELSE C26_Numbers[q.page.text]
        /\ C26_IsNumber(q.limit) =>
              reply.limit = C26_Clamp(C26_Numbers[q.limit.text], 1, 50)

\* the same, but a limit of 0 gives the default 20
C26_ClampedButZero(reply) ==
    LET q == reply.query
    IN  /\ C26_NoNumber(q.page) => reply.page = 1
        /\ C26_NoNumber(q.limit) => reply.limit = 20
        /\ C26_IsNumber(q.page) =>
              reply.page = IF C26_Numbers[q.page.text] < 1 THEN 1
                           ELSE C26_Numbers[q.page.text]
        /\ C26_IsNumber(q.limit) =>
              reply.limit = IF C26_Numbers[q.limit.text] = 0 THEN 20
                            ELSE C26_Clamp(C26_Numbers[q.limit.text], 1, 50)

\* C26 (as amended): every answer 200 of GET /api/generations holds rows of
\* the caller only, those from offset (page - 1) * limit on, latest first; its
\* page is the number asked for raised to at least 1; its limit is the number
\* asked for clamped to 1..50, except that a limit of 0 gives 20; a missing or
\* non-numeric value gives page 1 and limit 20.
C26_ListClamps ==
    [][(listReply' # listReply /\ listReply'.status = 200) =>
          /\ C26_Page(listReply')
          /\ C26_ClampedButZero(listReply')
      ]_vars

\* C26 (as stated): the same with every number clamped, a limit of 0 to 1.
C26_AsStated ==
    [][(listReply' # listReply /\ listReply'.status = 200) =>
          /\ C26_Page(listReply')
          /\ C26_Clamped(listReply')
      ]_vars

\* C26 witness: a caller with two requests asked for page 2 with limit 1 and
\* was given the older of the two.
C26_Witness ==
    /\ listReply.status = 200
    /\ listReply.query = [page |-> Param(<<"2">>), limit |-> Param(<<"1">>)]
    /\ listReply.page = 2
    /\ listReply.limit = 1
    /\ Cardinality(C26_Own(listReply.user)) = 2
    /\ Len(listReply.data) = 1
    /\ listReply.data[1].id = 1

\* handler h is inside the transaction of a submission, after the decrement
C27_AfterDecrement(h) ==
    /\ route[h] = "generations"
    /\ pc[h] \in {"txLedger", "txRequest"}

\* C27: when the ledger insert or the request insert of a submission fails, the
\* step leaves balance, ledger, requests and queue as they were before the
\* transaction, the answer is 500 'Internal server error', no row id is
\* returned (so nothing is enqueued or marked failed), and the handler is done;
\* afterwards nothing in the database or the queue stems from that submission.
C27_FailedTransactionHasNoEffect ==
    /\ [][\A h \in Handlers :
             ( /\ C27_AfterDecrement(h)
               /\ pc'[h] # pc[h]
               /\ pc'[h] \notin {"txRequest", "enqueue"} ) =>
                /\ UNCHANGED <<balance, ledger, requests, queue>>
                /\ resp'[h] = Reply(500, "Internal server error", 0)
                /\ result'[h] = None
                /\ pc'[h] = "done"
                /\ rowLock'[reqUser[h].id] = None
       ]_vars
    /\ [](\A h \in Handlers :
             (route[h] = "generations" /\ resp[h].status = 500 /\ result[h] = None)
                => NoEffect(h))
    /\ [][\A h \in Handlers : pc[h] = "done" => pc'[h] = "done"]_vars

\* C27 witness: a submission passed the decrement (its UPDATE returned the
\* reduced balance), then failed inside the transaction and was answered 500;
\* the balance is the initial one and the ledger, the requests and the queue
\* are empty.
C27_Witness ==
    \E h \in Handlers :
        /\ route[h] = "generations"
        /\ resp[h] = Reply(500, "Internal server error", 0)
        /\ result[h] = None
        /\ creditsNeeded[h] > 0
        /\ txBalance[h] = balance0[reqUser[h].id] - creditsNeeded[h]
        /\ balance = balance0
        /\ ledger = {}
        /\ requests = {}
        /\ queue = {}

\* job j is in the poll loop and the provider has reported processing
C28_Waiting(j) == At(j, "loop") /\ proc[j].videoStatus = "processing"

\* C28: the poll loop is bounded by VEO_MAX_POLLS. While the provider reports
\* processing and fewer than VEO_MAX_POLLS polls were made, the attempt polls
\* once more or ends with an error; after VEO_MAX_POLLS polls it ends with the
\* timeout error and nothing else. The attempt that times out has composed
\* nothing, inserts no video and leaves the request as it was, generating_video
\* and not completed.
C28_PollLoopBounded ==
    /\ [](\A j \in Handlers : proc[j].polls <= VEO_MAX_POLLS)
    /\ [][\A j \in Handlers :
             (C28_Waiting(j) /\ proc'[j] # proc[j]) =>
                IF proc[j].polls < VEO_MAX_POLLS
                THEN \/ /\ At(j, "loop")'
                        /\ proc'[j].polls = proc[j].polls + 1
                     \/ /\ ~Active(j)'
                        /\ proc'[j].err = "error"
                ELSE /\ ~Active(j)'
                     /\ proc'[j].err = "timeout"
       ]_vars
    /\ [][\A j \in Handlers :
             (Active(j) /\ ~Active(j)' /\ proc'[j].err = "timeout") =>
                /\ C28_Waiting(j)
                /\ proc[j].polls = VEO_MAX_POLLS
                /\ ~proc[j].composeCalled
                /\ proc[j].tempDir = "none"
                /\ proc[j].video = ""
                /\ UNCHANGED <<requests, videos>>
                /\ Row(j).status = GENERATION_STATUS.GENERATING_VIDEO
                /\ RowNext(j).status = GENERATION_STATUS.GENERATING_VIDEO
       ]_vars

\* C28 witness: an attempt has ended with the timeout after VEO_MAX_POLLS polls
\* and the job waits for its retry; there is no video and the request is still
\* generating_video at progress 40.
C28_Witness ==
    \E j \in Handlers :
        /\ jobs[j].state = "wait"
        /\ jobs[j].attemptsMade = 1
        /\ jobs[j].timeouts = 1
        /\ proc[j].err = "timeout"
        /\ videos = {}
        /\ HasRow(j)
        /\ Row(j).status = GENERATION_STATUS.GENERATING_VIDEO
        /\ Row(j).progress = 40
        /\ Row(j).videoId = Null

\* the last checkStatus of job j, in the poll loop, reported failed
C29_Failed(j) == At(j, "loop") /\ proc[j].videoStatus = "failed"

\* C29: when checkStatus reports failed, at the first poll or a later one, the
\* next step of the attempt ends it with the error 'Veo generation failed: '
\* followed by the provider's message; the attempt has composed nothing, has no
\* scratch directory and no video, inserts none, and leaves the request
\* generating_video at progress 40.
C29_ProviderFailureEndsAttempt ==
    /\ [][\A j \in Handlers :
             (C29_Failed(j) /\ proc'[j] # proc[j]) =>
                /\ ~Active(j)'
                /\ proc[j].videoError \in VideoErrors
                /\ proc'[j].err = "Veo generation failed: " \o proc[j].videoError
                /\ jobs'[j].attemptsMade = jobs[j].attemptsMade + 1
                /\ ~proc[j].composeCalled
                /\ proc[j].tempDir = "none"
                /\ proc[j].video = ""
                /\ UNCHANGED <<requests, videos>>
                /\ Row(j).status = GENERATION_STATUS.GENERATING_VIDEO
                /\ Row(j).progress = 40
       ]_vars
    /\ [](\A j \in Handlers :
             C29_Failed(j) => proc[j].polls \in 0..VEO_MAX_POLLS)

\* C29 witness: the first attempt of a job ended because the provider reported
\* 'quota exceeded'; the job waits for a retry, there is no video, and the
\* request is generating_video at progress 40.
C29_Witness ==
    \E j \in Handlers :
        /\ jobs[j].state = "wait"
        /\ jobs[j].attemptsMade = 1
        /\ proc[j].err = "Veo generation failed: quota exceeded"
        /\ videos = {}
        /\ HasRow(j)
        /\ Row(j).status = GENERATION_STATUS.GENERATING_VIDEO
        /\ Row(j).progress = 40

\* the request loaded by the attempt asks for a generated script, or stores no
\* script text
C30_Needs(g) ==
    \/ g.scriptType = "ai_generated"
    \/ g.scriptContent \in {Null, Undefined, ""}

\* C30: an attempt calls the script provider only for a request that is
\* ai_generated or stores no script, and it never reaches the voice stage of
\* such a request without having called it. When the voiceover is synthesized
\* for such a request, the text is the one the provider returned and the
\* request already stores it; for any other request the text is the stored
\* scriptContent, unchanged, and no step of that attempt writes the status
\* generating_script.
C30_ScriptOnlyWhenNeeded ==
    /\ [][\A j \in Handlers :
             (proc'[j].scriptCalled /\ ~proc[j].scriptCalled) =>
                /\ C30_Needs(proc[j].genReq)
                /\ RowNext(j).scriptContent = proc'[j].scriptText
                /\ proc'[j].spoken = "<null>"
       ]_vars
    /\ [][\A j \in Handlers :
             (At(j, "voice35") /\ proc'[j].pc = "video40") =>
                IF C30_Needs(proc[j].genReq)
                THEN /\ proc[j].scriptCalled
                     /\ proc'[j].spoken = "generated script"
                     /\ Row(j).scriptContent = proc'[j].spoken
                ELSE /\ ~proc[j].scriptCalled
                     /\ proc'[j].spoken = proc[j].genReq.scriptContent
                     /\ Row(j).scriptContent = proc'[j].spoken
       ]_vars
    /\ [][\A j \in Handlers :
             ( /\ Active(j)
               /\ HasRow(j)
               /\ Row(j) # RowNext(j)
               /\ RowNext(j).status = GENERATION_STATUS.GENERATING_SCRIPT ) =>
                  C30_Needs(proc[j].genReq)
       ]_vars
    /\ [](\A j \in Handlers :
             (Active(j) /\ proc[j].pc \in {"script5", "script15"}) =>
                C30_Needs(proc[j].genReq))

\* C30 witness: the voiceover of a user_provided request was synthesized from
\* the stored script 'breathe in' without a call of the script provider.
C30_Witness ==
    \E j \in Handlers :
        /\ At(j, "video40")
        /\ proc[j].genReq.scriptType = "user_provided"
        /\ ~proc[j].scriptCalled
        /\ proc[j].spoken = "breathe in"
        /\ Row(j).scriptContent = "breathe in"
        /\ Row(j).status = GENERATION_STATUS.GENERATING_VOICE

\* the other case of C30: on a retry of an ai_generated request, which by then
\* stores the script of the first attempt, the provider was called again and
\* its text synthesized
C30_WitnessGenerated ==
    \E j \in Handlers :
        /\ At(j, "video40")
        /\ jobs[j].attemptsMade >= 1
        /\ proc[j].genReq.scriptType = "ai_generated"
        /\ proc[j].genReq.scriptContent = "generated script"
        /\ proc[j].scriptCalled
        /\ proc[j].spoken = "generated script"


\* ----------------------------------------------------------------------------
\* C31 .. C38
\* ----------------------------------------------------------------------------

\* the answer of the provider carries an error object
C38_HasError(res) == res.error \notin {Undefined, Null}

\* the answer names a video URI in its first prediction
C38_HasUri(res) ==
    /\ res.response.kind = "list"
    /\ res.response.predictions # <<>>
    /\ Head(res.response.predictions).videoUri \in {"uri-a", "uri-b"}

\* the state the stated precedence gives to an answer with HTTP status ok
C38_State(res) ==
    CASE C38_HasError(res) -> "failed"
      [] ~C38_HasError(res) /\ res.done # "true" -> "processing"
      [] ~C38_HasError(res) /\ res.done = "true" /\ ~C38_HasUri(res) -> "failed"
      [] ~C38_HasError(res) /\ res.done = "true" /\ C38_HasUri(res) -> "completed"

\* C38: checkStatus gives every answer of the provider one state: failed with
\* the provider's message when the answer has an error, whatever done says;
\* else processing when done is not set; else failed when the first prediction
\* names no video URI; else completed with the URI of the first prediction. A
\* completed status always carries a download URI.
C38_CheckStatusPrecedence ==
    (adapter.op = "checkStatus" /\ adapter.response.http = "ok") =>
        LET res == adapter.response
        IN  /\ adapter.threw = ""
            /\ adapter.state \in VideoStates
            /\ adapter.state = C38_State(res)
            /\ C38_HasError(res) => adapter.error = res.error
            /\ (adapter.state = "failed" /\ ~C38_HasError(res)) =>
                  adapter.error = "Veo completed but returned no video URI"
            /\ adapter.state = "completed" <=>
                  adapter.downloadUri \in {"uri-a", "uri-b"}
            /\ adapter.state = "completed" =>
                  adapter.downloadUri = Head(res.response.predictions).videoUri
            /\ adapter.state # "completed" => adapter.downloadUri = ""

\* C38 witness: an answer with an error, done set and a video URI was given
\* the state failed with the provider's message.
C38_Witness ==
    /\ adapter.op = "checkStatus"
    /\ adapter.response.error = "quota exceeded"
    /\ adapter.response.done = "true"
    /\ C38_HasUri(adapter.response)
    /\ adapter.state = "failed"
    /\ adapter.error = "quota exceeded"

\* C33: downloadResult returns a stream only when the status it has just
\* fetched is completed, and then it is the stream of that status's URI; when
\* that status is processing or failed it rejects with 'Cannot download: job
\* is ' and the state, and has sent no download request.
C33_DownloadOnlyWhenCompleted ==
    (adapter.op = "downloadResult" /\ adapter.response.http = "ok") =>
        LET res == adapter.response
        IN  /\ adapter.stream # "" =>
                  /\ C38_State(res) = "completed"
                  /\ adapter.threw = ""
                  /\ adapter.fetched = <<Head(res.response.predictions).videoUri>>
                  /\ adapter.stream = Head(res.response.predictions).videoUri
            /\ C38_State(res) = "processing" =>
                  /\ adapter.threw = "Cannot download: job is processing"
                  /\ adapter.fetched = <<>>
                  /\ adapter.stream = ""
            /\ C38_State(res) = "failed" =>
                  /\ adapter.threw = "Cannot download: job is failed"
                  /\ adapter.fetched = <<>>
                  /\ adapter.stream = ""
            /\ (C38_State(res) = "completed" /\ adapter.stream = "") =>
                  adapter.threw \in {"network error", "Veo download failed"}

\* C33 witness: downloadResult was called for a job that is still processing
\* and rejected without a download request.
C33_Witness ==
    /\ adapter.op = "downloadResult"
    /\ adapter.response.http = "ok"
    /\ adapter.response.done = "false"
    /\ adapter.response.error = Undefined
    /\ adapter.threw = "Cannot download: job is processing"
    /\ adapter.fetched = <<>>

\* the other case of C33: the job is completed and the stream of its URI is
\* returned after one download request
C33_WitnessCompleted ==
    /\ adapter.op = "downloadResult"
    /\ adapter.stream = "uri-a"
    /\ adapter.fetched = <<"uri-a">>

\* the nearest integer to polls / 48 * 35, a half counted upwards: the r with
\* r - 1/2 <= polls * 35 / 48 < r + 1/2
C32_Rounded(polls) ==
    CHOOSE r \in 0..35 :
        /\ 96 * r - 48 <= 70 * polls
        /\ 70 * polls < 96 * r + 48

\* C32: after polls polls of the loop, for every polls in 1..48, the progress
\* given to job.updateProgress is min(75, 40 + round(polls / 48 * 35)); it lies
\* in 40..75, never decreases from one poll to the next, and is 75 exactly
\* when polls = 48.
C32_PollProgress ==
    /\ [](\A j \in Handlers :
             (Active(j) /\ proc[j].polls >= 1) =>
                LET polls == proc[j].polls
                    p == proc[j].pollProgress
                IN  /\ polls \in 1..48
                    /\ p = IF 40 + C32_Rounded(polls) > 75 THEN 75
                           ELSE 40 + C32_Rounded(polls)
                    /\ p \in 40..75
                    /\ p = 75 <=> polls = 48
                    /\ polls = 1 => p = 41
                    /\ polls = 24 => p = 58
                    /\ polls = 47 => p = 74)
    /\ [][\A j \in Handlers :
             (Active(j) /\ Active(j)' /\ proc'[j].polls = proc[j].polls + 1) =>
                /\ proc'[j].pollProgress >= proc[j].pollProgress
                /\ proc'[j].pollProgress >= 40
                /\ proc'[j].pollProgress - proc[j].pollProgress <= 1
                      \/ proc[j].polls = 0
       ]_vars

\* C32 witness: the loop has made its 48th poll and reported progress 75.
C32_Witness ==
    \E j \in Handlers :
        /\ At(j, "loop")
        /\ proc[j].polls = 48
        /\ proc[j].pollProgress = 75

\* the ids of the video rows
C31_VideoIds == {v.id : v \in videos}

\* a step writes the row of job j and leaves it completed
C31_Completes(j) ==
    /\ HasRow(j)
    /\ RowNext(j) # Row(j)
    /\ RowNext(j).status = GENERATION_STATUS.COMPLETED

\* C31: a request is written completed only by a running attempt that has, in
\* this order, uploaded the voiceover, been told completed by the provider,
\* got the composition back, finished both final uploads and inserted the
\* video row; the write sets status completed, progress 100 and the id of that
\* video row together and nothing else.
C31_CompletedLast ==
    /\ [][\A j \in Handlers :
             C31_Completes(j) =>
                /\ Active(j)
                /\ VoiceoverKey \in proc[j].uploaded
                /\ proc[j].videoStatus = "completed"
                /\ proc[j].composeCalled
                /\ proc[j].tempDir = "exists"
                /\ FinalKeys \subseteq proc[j].uploaded
                /\ proc[j].video \in C31_VideoIds
                /\ RowNext(j) = [Row(j) EXCEPT
                                    !.status = GENERATION_STATUS.COMPLETED,
                                    !.progress = 100,
                                    !.videoId = proc[j].video]
       ]_vars
    /\ [][\A j \in Handlers :
             (Active(j) /\ videos' # videos /\ proc'[j].video # proc[j].video) =>
                /\ FinalKeys \subseteq proc[j].uploaded
                /\ proc[j].video = ""
       ]_vars
    /\ [][\A j \in Handlers :
             (Active(j) /\ \E k \in FinalKeys :
                             k \in proc'[j].uploaded \ proc[j].uploaded) =>
                /\ proc[j].composeCalled
                /\ proc[j].tempDir = "exists"
                /\ proc[j].video = ""
       ]_vars
    /\ [][\A j \in Handlers :
             (Active(j) /\ proc'[j].composeCalled /\ ~proc[j].composeCalled) =>
                /\ proc[j].videoStatus = "completed"
                /\ proc[j].uploaded = {VoiceoverKey}
       ]_vars
    /\ [][\A j \in Handlers :
             ( /\ Active(j)
               /\ proc'[j].videoStatus = "completed"
               /\ proc[j].videoStatus # "completed" ) =>
                  /\ proc[j].uploaded = {VoiceoverKey}
                  /\ ~proc[j].composeCalled
       ]_vars

\* C31 witness: the attempt has just written its request completed, with
\* progress 100 and the id of the video row it inserted, after the three
\* uploads, the provider's completed and the composition.
C31_Witness ==
    \E j \in Handlers :
        /\ At(j, "finish")
        /\ proc[j].uploaded = {VoiceoverKey} \cup FinalKeys
        /\ proc[j].videoStatus = "completed"
        /\ proc[j].composeCalled
        /\ proc[j].video \in C31_VideoIds
        /\ Row(j).status = GENERATION_STATUS.COMPLETED
        /\ Row(j).progress = 100
        /\ Row(j).videoId = proc[j].video

\* the two orders of the final uploads: one of them is done, the other not
C31_VideoFirst ==
    \E j \in Handlers :
        At(j, "upload") /\ proc[j].uploaded = {VoiceoverKey, "final.mp4"}
C31_ThumbnailFirst ==
    \E j \in Handlers :
        At(j, "upload") /\ proc[j].uploaded = {VoiceoverKey, "thumbnail.jpg"}

\* the names of the provider jobs started for job j so far
C37_Started(j) == {"veo-" \o ToString(i) : i \in 1..jobs[j].veoStarted}

\* the attempts of job j begun so far: those that failed, and the one that is
\* running or has succeeded
C37_Begun(j) ==
    jobs[j].attemptsMade
       + (IF jobs[j].state \in {"active", "completed"} THEN 1 ELSE 0)

\* C37: an attempt calls generateVideo at most once and synthesize at most
\* once; the provider jobs started for a request are never more than the
\* attempts begun, hence at most 3; an attempt begins without a provider job
\* and the one it starts is none of those started before, and it keeps polling
\* that one.
C37_OneProviderJobPerAttempt ==
    /\ [](\A j \in Handlers :
             /\ proc[j].veoCalls <= 1
             /\ proc[j].synthCalls <= 1
             /\ jobs[j].veoStarted <= C37_Begun(j)
             /\ jobs[j].veoStarted <= Attempts
             /\ (Active(j) /\ proc[j].veoCalls = 1) =>
                   proc[j].veoJobId = "veo-" \o ToString(jobs[j].veoStarted))
    /\ [][\A j \in Handlers :
             (~Active(j) /\ Active(j)') =>
                /\ proc'[j].veoJobId = ""
                /\ proc'[j].veoCalls = 0
                /\ proc'[j].synthCalls = 0
       ]_vars
    /\ [][\A j \in Handlers :
             jobs'[j].veoStarted # jobs[j].veoStarted =>
                /\ jobs'[j].veoStarted = jobs[j].veoStarted + 1
                /\ Active(j)
                /\ proc[j].veoCalls = 0
                /\ proc'[j].veoCalls = 1
                /\ proc'[j].veoJobId \notin C37_Started(j)
                /\ proc'[j].veoJobId \in C37_Started(j)'
       ]_vars
    /\ [][\A j \in Handlers :
             (Active(j) /\ Active(j)' /\ proc[j].veoJobId # "") =>
                proc'[j].veoJobId = proc[j].veoJobId
       ]_vars

\* C37 witness: the third attempt of a job polls the third provider job
\* started for its request, after one call of synthesize in this attempt.
C37_Witness ==
    \E j \in Handlers :
        /\ At(j, "loop")
        /\ jobs[j].attemptsMade = 2
        /\ jobs[j].veoStarted = 3
        /\ proc[j].veoJobId = "veo-3"
        /\ proc[j].veoCalls = 1
        /\ proc[j].synthCalls = 1

C34_TerminalStatuses == {GENERATION_STATUS.COMPLETED, GENERATION_STATUS.FAILED}

\* C34: once the status of a request is completed or failed, every later step
\* leaves its status, progress and videoId as they are.
C34_TerminalAbsorbing ==
    [][\A r \in requests :
          r.status \in C34_TerminalStatuses =>
             \E n \in requests' :
                /\ n.id = r.id
                /\ n.status = r.status
                /\ n.progress = r.progress
                /\ n.videoId = r.videoId
      ]_vars

\* the progress values each status is written with
C35_Progress ==
    [s \in {GENERATION_STATUS.PENDING, GENERATION_STATUS.GENERATING_SCRIPT,
            GENERATION_STATUS.GENERATING_VOICE, GENERATION_STATUS.GENERATING_VIDEO,
            GENERATION_STATUS.COMPOSITING, GENERATION_STATUS.COMPLETED} |->
        CASE s = GENERATION_STATUS.PENDING -> {0}
          [] s = GENERATION_STATUS.GENERATING_SCRIPT -> {5, 15}
          [] s = GENERATION_STATUS.GENERATING_VOICE -> {20, 35}
          [] s = GENERATION_STATUS.GENERATING_VIDEO -> {40, 75}
          [] s = GENERATION_STATUS.COMPOSITING -> {78, 95}
          [] s = GENERATION_STATUS.COMPLETED -> {100}]

\* the pairs of the statuses that are not failed; a failed request has
\* progress 0, which is what the failed hook writes
C35_PairsWithFailedZero ==
    \A r \in requests :
        IF r.status = GENERATION_STATUS.FAILED THEN r.progress = 0
        ELSE /\ r.status \in DOMAIN C35_Progress
             /\ r.progress \in C35_Progress[r.status]

\* C35: the status and progress of every request form one of the pairs
\* (pending, 0), (generating_script, 5 or 15), (generating_voice, 20 or 35),
\* (generating_video, 40 or 75), (compositing, 78 or 95), (completed, 100), or
\* the status is failed and the progress is the one the request had when it
\* was marked failed.
C35_StatusProgressPairs ==
    /\ [](\A r \in requests :
             /\ r.progress \in 0..100
             /\ r.status # GENERATION_STATUS.FAILED =>
                   /\ r.status \in DOMAIN C35_Progress
                   /\ r.progress \in C35_Progress[r.status])
    /\ [][\A r \in requests, n \in requests' :
             (n.id = r.id /\ n.status = GENERATION_STATUS.FAILED) =>
                n.progress = r.progress
       ]_vars

C36_OwnScript == {"user_provided", "template"}

\* C36: a request of type user_provided or template stores a non-empty
\* scriptContent, the one submitted, and no step changes it; a step that
\* changes the scriptContent of a request is a write of the worker to an
\* ai_generated request.
C36_UserScriptKept ==
    /\ [](\A h \in Handlers : \A r \in requests :
             (r.tx = h /\ r.scriptType \in C36_OwnScript) =>
                /\ r.scriptContent \notin {Null, Undefined, ""}
                /\ r.scriptContent = body[h].scriptContent)
    /\ [][\A r \in requests, n \in requests' :
             (n.id = r.id /\ n.scriptContent # r.scriptContent) =>
                /\ r.scriptType = "ai_generated"
                /\ Active(r.id)
                /\ proc[r.id].pc = "script15"
       ]_vars

\* C36 witness: a template request was completed by a retry and still stores
\* the submitted script, which is the text that was synthesized.
C36_Witness ==
    \E j \in Handlers :
        /\ HasRow(j)
        /\ At(j, "finish")
        /\ jobs[j].attemptsMade >= 1
        /\ Row(j).scriptType = "template"
        /\ Row(j).status = GENERATION_STATUS.COMPLETED
        /\ Row(j).scriptContent = "breathe in"
        /\ proc[j].spoken = "breathe in"

\* the other half of C36: the text an ai_generated request brought along has
\* been replaced by the generated one
C36_GeneratedReplaces ==
    \E j \in Handlers :
        /\ HasRow(j)
        /\ body[j].scriptContent = "my own words"
        /\ Row(j).scriptType = "ai_generated"
        /\ Row(j).scriptContent = "generated script"
====
